---- MODULE Spec2Model ----
(***************************************************************************)
(* Model of src/scrapper.py (otomoto scraper): the retrying fetch client,  *)
(* the Playwright VIN extractor, the detail record builder with the Car    *)
(* dataclass and transform_car_to_schema, and the page loop and the        *)
(* chunked batch loop of AsyncOtomotoScraper.scrape.                       *)
(*                                                                         *)
(* Text is a sequence of one-character strings, so that strip() is         *)
(* computed and not assumed.  Python's None is the one-element tuple None, *)
(* which no text equals.                                                   *)
(***************************************************************************)
EXTENDS Integers, Sequences, FiniteSets, TLC

VARIABLES
    \* ---- fetch_html (one call) ----
    f_pc,        \* position inside fetch_html
    f_retries,   \* the `retries` argument
    f_attempt,   \* loop variable `attempt`
    f_log,       \* the responses / exceptions of the attempts made so far
    f_long,      \* number of asyncio.sleep(5) waits performed (403 branch)
    f_std,       \* number of asyncio.sleep(delay) waits performed
    f_ret,       \* the returned html
    f_exit,      \* how the call ended: "running", "body", "empty", "raised"
    \* ---- extract_vin_with_playwright (one call) ----
    v_pc,        \* position inside extract_vin_with_playwright
    v_attempt,   \* loop variable `attempt`
    v_open,      \* browsers (sessions) of this call that are running
    v_opened,    \* number of browsers launched by this call so far
    v_sleeps,    \* number of asyncio.sleep(5) cooldowns begun
    v_trace,     \* the steps of the current attempt, in order
    v_captured,  \* what text_content() gave in the current attempt
    v_ret,       \* the returned value
    v_exit,      \* how the call ended: "running", "value", "absent"
    \* ---- fetch_car_details (one call) ----
    b_pc,        \* position inside fetch_car_details
    b_url,       \* the `url` argument
    b_soup,      \* BeautifulSoup(html) of the fetched detail page
    b_pw,        \* what extract_vin_with_playwright returned
    b_car,       \* the returned Car, or NoCar for None
    b_outs,      \* the mappings transform_car_to_schema gave for b_car
    \* ---- scrape: the batch loop (l.377-392) ----
    s_pc,        \* position inside scrape
    all_links,   \* the discovered links, in order
    s_i,         \* loop variable `i`
    chunks,      \* the chunks formed so far: offset and links of each
    t_state,     \* per link position: "pending", "running" or "done"
    t_result,    \* per link position: what its fetch_car_details returned
    launched,    \* per link position: number of fetch_car_details calls made
    cars,        \* the list `cars`
    s_sleeps,    \* number of asyncio.sleep(0.5) begun between chunks
    \* ---- scrape: the page loop (l.366-375) ----
    max_pages,   \* self.max_pages
    c_page,      \* loop variable `page`
    c_log,       \* the sleeps and page requests made so far, in order
    c_soups,     \* BeautifulSoup(html) of each listing page fetched so far
    \* ---- scrape: the whole run, with the calls of each task ----
    c_req,       \* failed requests of the page loop's running fetch_html call
    t_req,       \* per link position: failed requests of its running fetch_html call
    t_fetched,   \* per link position: how its fetch_html ended
    t_soup,      \* per link position: BeautifulSoup(html) of its detail page
    t_sess,      \* per link position: browsers launched by its running extractor call
    t_vin        \* per link position: extract_vin_with_playwright was called

fetchVars == <<f_pc, f_retries, f_attempt, f_log, f_long, f_std, f_ret, f_exit>>
vinVars == <<v_pc, v_attempt, v_open, v_opened, v_sleeps, v_trace, v_captured,
             v_ret, v_exit>>

buildVars == <<b_pc, b_url, b_soup, b_pw, b_car, b_outs>>

batchVars == <<s_pc, all_links, s_i, chunks, t_state, t_result, launched, cars,
               s_sleeps>>

crawlVars == <<max_pages, c_page, c_log, c_soups>>

runVars == <<c_req, t_req, t_fetched, t_soup, t_sess, t_vin>>

vars == <<fetchVars, vinVars, buildVars, batchVars, crawlVars, runVars>>

----------------------------------------------------------------------------
(* Bounds *)
MaxRetries == 3
MaxLinks == 17
MaxFailing == 1
MaxTransforms == 2
MaxPages == 3

----------------------------------------------------------------------------
(* Python values *)
None == <<"<None>">>

\* the html "" : fetch_html's `return ""`, and also a 200 answer with no body
EmptyHtml == <<>>
PageHtml  == <<"<", "h", ">">>
ErrorHtml == <<"<", "e", ">">>
Bodies == {EmptyHtml, PageHtml, ErrorHtml}

\* what one `session.get` + `response.text()` can do
Responses ==
    [kind : {"status"}, status : {200, 403, 404, 500}, body : Bodies]
    \cup {[kind |-> "exception", status |-> 0, body |-> EmptyHtml]}

\* str.strip() on a text: drop the leading and the trailing blanks
IsBlank(c) == c = " "

RECURSIVE LStrip(_)
LStrip(t) ==
    IF t # <<>> /\ IsBlank(t[1]) THEN LStrip(Tail(t)) ELSE t

RECURSIVE RStrip(_)
RStrip(t) ==
    IF t # <<>> /\ IsBlank(t[Len(t)]) THEN RStrip(SubSeq(t, 1, Len(t) - 1)) ELSE t

StripIdentity(t) == t

Strip(t) == RStrip(LStrip(t))

\* Python truthiness of an Optional[str]
Truthy(x) == x # None /\ x # <<>>

----------------------------------------------------------------------------
(* fetch_html *)

NoCar == [none |-> TRUE]

FetchInit ==
    /\ f_pc = "loop"
    /\ f_retries \in 0..MaxRetries
    /\ f_attempt = 0
    /\ f_log = <<>>
    /\ f_long = 0
    /\ f_std = 0
    /\ f_ret = None
    /\ f_exit = "running"
    \* extract_vin_with_playwright is not running
    /\ v_pc = "idle"
    /\ v_attempt = 0
    /\ v_open = {}
    /\ v_opened = 0
    /\ v_sleeps = 0
    /\ v_trace = <<>>
    /\ v_captured = None
    /\ v_ret = None
    /\ v_exit = "running"
    \* fetch_car_details is not running
    /\ b_pc = "idle"
    /\ b_url = "u1"
    /\ b_soup = NoCar
    /\ b_pw = None
    /\ b_car = NoCar
    /\ b_outs = <<>>
    \* scrape is not running
    /\ s_pc = "idle"
    /\ all_links = <<>>
    /\ s_i = 0
    /\ chunks = <<>>
    /\ t_state = <<>>
    /\ t_result = <<>>
    /\ launched = <<>>
    /\ cars = <<>>
    /\ s_sleeps = 0
    /\ max_pages = 0
    /\ c_page = 0
    /\ c_log = <<>>
    /\ c_soups = <<>>
    /\ c_req = 0
    /\ t_req = <<>>
    /\ t_fetched = <<>>
    /\ t_soup = <<>>
    /\ t_sess = <<>>
    /\ t_vin = <<>>

\* `for attempt in range(retries)` : the loop head issues the request of this
\* attempt, or falls out of the loop to `return ""`
FetchSend ==
    /\ f_pc = "loop"
    /\ f_attempt < f_retries
    /\ f_pc' = "get"
    /\ UNCHANGED <<f_retries, f_attempt, f_log, f_long, f_std, f_ret, f_exit>>

FetchReturnEmpty ==
    /\ f_pc = "loop"
    /\ ~(f_attempt < f_retries)
    /\ f_pc' = "done"
    /\ f_ret' = EmptyHtml
    /\ f_exit' = "empty"
    /\ UNCHANGED <<f_retries, f_attempt, f_log, f_long, f_std>>

\* response.status == 403 : sleep(5) unconditionally, then `continue`
FetchGet403Std ==
    /\ f_pc = "get"
    /\ \E b \in Bodies :
         f_log' = Append(f_log, [kind |-> "status", status |-> 403, body |-> b])
    /\ IF f_attempt < f_retries - 1
         THEN /\ f_pc' = "sleep_delay"
              /\ UNCHANGED f_attempt
         ELSE /\ f_pc' = "loop"
              /\ f_attempt' = f_attempt + 1
    /\ UNCHANGED <<f_retries, f_long, f_std, f_ret, f_exit>>

FetchGet403 ==
    /\ f_pc = "get"
    /\ \E b \in Bodies :
         f_log' = Append(f_log, [kind |-> "status", status |-> 403, body |-> b])
    /\ f_pc' = "sleep_403"
    /\ UNCHANGED <<f_retries, f_attempt, f_long, f_std, f_ret, f_exit>>

\* response.status != 200 : sleep(delay) unless this was the last attempt
FetchGetOther ==
    /\ f_pc = "get"
    /\ \E r \in Responses :
         /\ r.kind = "status"
         /\ r.status # 403
         /\ r.status # 200
         /\ f_log' = Append(f_log, r)
    /\ IF f_attempt < f_retries - 1
         THEN /\ f_pc' = "sleep_delay"
              /\ UNCHANGED f_attempt
         ELSE /\ f_pc' = "loop"
              /\ f_attempt' = f_attempt + 1
    /\ UNCHANGED <<f_retries, f_long, f_std, f_ret, f_exit>>

\* `except Exception` : session.get or response.text() raised
FetchGetExceptionRaise ==
    /\ f_pc = "get"
    /\ f_log' = Append(f_log, [kind |-> "exception", status |-> 0, body |-> EmptyHtml])
    /\ f_pc' = "done"
    /\ f_exit' = "raised"
    /\ UNCHANGED <<f_retries, f_attempt, f_long, f_std, f_ret>>

FetchGetException ==
    /\ f_pc = "get"
    /\ f_log' = Append(f_log, [kind |-> "exception", status |-> 0, body |-> EmptyHtml])
    /\ IF f_attempt < f_retries - 1
         THEN /\ f_pc' = "sleep_delay"
              /\ UNCHANGED f_attempt
         ELSE /\ f_pc' = "loop"
              /\ f_attempt' = f_attempt + 1
    /\ UNCHANGED <<f_retries, f_long, f_std, f_ret, f_exit>>

\* status 200 : `return await response.text()`
FetchGet200 ==
    /\ f_pc = "get"
    /\ \E b \in Bodies :
         /\ f_log' = Append(f_log, [kind |-> "status", status |-> 200, body |-> b])
         /\ f_ret' = b
    /\ f_pc' = "done"
    /\ f_exit' = "body"
    /\ UNCHANGED <<f_retries, f_attempt, f_long, f_std>>

\* asyncio.sleep(5) of the 403 branch is over; `continue`
FetchSleep403Counted ==
    /\ f_pc = "sleep_403"
    /\ f_long' = f_long + 1
    /\ f_pc' = "loop"
    /\ UNCHANGED <<f_retries, f_attempt, f_log, f_std, f_ret, f_exit>>

FetchSleep403 ==
    /\ f_pc = "sleep_403"
    /\ f_long' = f_long + 1
    /\ f_attempt' = f_attempt + 1
    /\ f_pc' = "loop"
    /\ UNCHANGED <<f_retries, f_log, f_std, f_ret, f_exit>>

\* asyncio.sleep(delay) is over; next iteration
FetchSleepDelay ==
    /\ f_pc = "sleep_delay"
    /\ f_std' = f_std + 1
    /\ f_attempt' = f_attempt + 1
    /\ f_pc' = "loop"
    /\ UNCHANGED <<f_retries, f_log, f_long, f_ret, f_exit>>

FetchNext ==
    /\ \/ FetchSend
       \/ FetchReturnEmpty
       \/ FetchGet403
       \/ FetchGetOther
       \/ FetchGetException
       \/ FetchGet200
       \/ FetchSleep403
       \/ FetchSleepDelay
    /\ UNCHANGED <<vinVars, buildVars, batchVars, crawlVars, runVars>>

SpecFetch == FetchInit /\ [][FetchNext]_vars

\* requests issued so far: the answered ones and the one in flight
Requests == Len(f_log) + (IF f_pc = "get" THEN 1 ELSE 0)

Is200(r) == r.kind = "status" /\ r.status = 200
Is403(r) == r.kind = "status" /\ r.status = 403
IsOtherFailure(r) == ~Is200(r) /\ ~Is403(r)

RECURSIVE Count403(_)
Count403(log) ==
    IF log = <<>> THEN 0
    ELSE (IF Is403(log[1]) THEN 1 ELSE 0) + Count403(Tail(log))

RECURSIVE CountOtherFailures(_)
CountOtherFailures(log) ==
    IF log = <<>> THEN 0
    ELSE (IF IsOtherFailure(log[1]) THEN 1 ELSE 0) + CountOtherFailures(Tail(log))

----------------------------------------------------------------------------
(* C1: fetch_html never raises; when it has returned, it returned either   *)
(* the body of the 200 answer of its last request, or the empty html, and  *)
(* the empty-html exit is taken only after exactly `retries` requests were *)
(* issued, none of which was answered 200 (an exception while reading the  *)
(* body is the attempt's exception outcome).                               *)
C1_FetchNeverRaises ==
    /\ f_exit # "raised"
    /\ f_pc = "done" =>
         \/ /\ f_exit = "body"
            /\ f_log # <<>>
            /\ Is200(f_log[Len(f_log)])
            /\ f_ret = f_log[Len(f_log)].body
         \/ /\ f_exit = "empty"
            /\ f_ret = EmptyHtml
            /\ Len(f_log) = f_retries
            /\ \A i \in 1..Len(f_log) : ~Is200(f_log[i])

C1_Witness ==
    /\ f_pc = "done"
    /\ f_exit = "empty"
    /\ f_retries = 3
    /\ f_log[1].kind = "exception"
    /\ Is403(f_log[2])
    /\ f_log[3].kind = "status" /\ f_log[3].status = 500

(* C2: with retries = 3 and the answers 403, 403, 200, fetch_html returns  *)
(* the body of the third answer after exactly 2 sleeps of the 403 branch   *)
(* and no sleep(delay).                                                    *)
C2_Forbidden403Twice ==
    ( /\ f_pc = "done"
      /\ f_retries = 3
      /\ Len(f_log) = 3
      /\ Is403(f_log[1]) /\ Is403(f_log[2]) /\ Is200(f_log[3]) )
    => ( /\ f_exit = "body"
         /\ f_ret = f_log[3].body
         /\ f_long = 2
         /\ f_std = 0 )

C2_Witness ==
    /\ f_pc = "done"
    /\ f_retries = 3
    /\ Len(f_log) = 3
    /\ Is403(f_log[1]) /\ Is403(f_log[2]) /\ Is200(f_log[3])
    /\ f_ret = PageHtml
    /\ f_log[1].body = ErrorHtml

(* C3 as stated: a 403 answer does not consume the retry budget, so        *)
(* fetch_html gives up (returns the empty html) only once `retries`        *)
(* failures other than 403 have happened.                                  *)
C3_Original403NotCounted ==
    f_exit = "empty" => CountOtherFailures(f_log) >= f_retries

(* C3 amended: a 403 answer is a distinct class only in its wait - every   *)
(* 403 is followed by the sleep(5) cooldown, also on the last attempt, and *)
(* never by sleep(delay) - but it consumes one of the `retries` attempts   *)
(* like any other failure: at most `retries` requests are ever issued and  *)
(* the empty html is returned after `retries` failures of any class.       *)
C3_403ConsumesAttempt ==
    /\ Requests <= f_retries
    /\ f_pc # "sleep_403" => f_long = Count403(f_log)
    /\ f_std <= CountOtherFailures(f_log)
    /\ f_exit = "empty" => Count403(f_log) + CountOtherFailures(f_log) = f_retries

C3_Witness ==
    /\ f_exit = "empty"
    /\ f_retries = 2
    /\ Count403(f_log) = 2
    /\ f_long = 2

----------------------------------------------------------------------------
(* extract_vin_with_playwright *)

max_retries == 2

\* what `await vin_element.text_content()` can give: the text of the <p>,
\* blanks included, or None
CapturedTexts ==
    { <<"V", "1">>, <<" ", "V", "1", " ">>, <<"V", "2", " ">>, <<" ">>, <<>> }

\* positions inside the `try` of one attempt, after the browser was launched
InSession == {"launched", "navigated", "consent_done", "not_rendered", "clicked"}

VinInit ==
    /\ v_pc = "loop"
    /\ v_attempt = 0
    /\ v_open = {}
    /\ v_opened = 0
    /\ v_sleeps = 0
    /\ v_trace = <<>>
    /\ v_captured = None
    /\ v_ret = None
    /\ v_exit = "running"
    \* fetch_html is not running
    /\ f_pc = "idle"
    /\ f_retries = 0
    /\ f_attempt = 0
    /\ f_log = <<>>
    /\ f_long = 0
    /\ f_std = 0
    /\ f_ret = None
    /\ f_exit = "running"
    \* fetch_car_details is not running
    /\ b_pc = "idle"
    /\ b_url = "u1"
    /\ b_soup = NoCar
    /\ b_pw = None
    /\ b_car = NoCar
    /\ b_outs = <<>>
    \* scrape is not running
    /\ s_pc = "idle"
    /\ all_links = <<>>
    /\ s_i = 0
    /\ chunks = <<>>
    /\ t_state = <<>>
    /\ t_result = <<>>
    /\ launched = <<>>
    /\ cars = <<>>
    /\ s_sleeps = 0
    /\ max_pages = 0
    /\ c_page = 0
    /\ c_log = <<>>
    /\ c_soups = <<>>
    /\ c_req = 0
    /\ t_req = <<>>
    /\ t_fetched = <<>>
    /\ t_soup = <<>>
    /\ t_sess = <<>>
    /\ t_vin = <<>>

\* l.304-311: async_playwright(), chromium.launch, new_context, new_page
VinLaunch ==
    /\ v_pc = "loop"
    /\ v_attempt <= max_retries
    /\ v_opened' = v_opened + 1
    /\ v_open' = v_open \cup {v_opened + 1}
    /\ v_trace' = <<"open">>
    /\ v_captured' = None
    /\ v_pc' = "launched"
    /\ UNCHANGED <<v_attempt, v_sleeps, v_ret, v_exit>>

\* l.304-306: the driver or the browser does not start; nothing was opened
VinLaunchFails ==
    /\ v_pc = "loop"
    /\ v_attempt <= max_retries
    /\ v_trace' = <<"raise">>
    /\ v_captured' = None
    /\ v_pc' = "except"
    /\ UNCHANGED <<v_attempt, v_open, v_opened, v_sleeps, v_ret, v_exit>>

\* l.314: page.goto(url, wait_until="load", timeout=30000) succeeded
VinGoto ==
    /\ v_pc = "launched"
    /\ v_trace' = Append(v_trace, "navigate")
    /\ v_pc' = "navigated"
    /\ UNCHANGED <<v_attempt, v_open, v_opened, v_sleeps, v_captured, v_ret, v_exit>>

\* l.317-323: the consent button is absent, or clicked, or the step raised
\* and the inner `except Exception: pass` swallowed it
VinConsent ==
    /\ v_pc = "navigated"
    /\ \E o \in {"consent_absent", "consent_clicked", "consent_error"} :
         v_trace' = Append(v_trace, o)
    /\ v_pc' = "consent_done"
    /\ UNCHANGED <<v_attempt, v_open, v_opened, v_sleeps, v_captured, v_ret, v_exit>>

\* l.326-330: the VIN is already rendered: text_content, browser.close,
\* return vin.strip() - which raises AttributeError when the text is None
VinRendered ==
    /\ v_pc = "consent_done"
    /\ \E t \in CapturedTexts \cup {None} :
         /\ v_captured' = t
         /\ v_open' = {}
         /\ IF t = None
              THEN /\ v_trace' = v_trace \o <<"capture", "close", "raise">>
                   /\ v_pc' = "except"
                   /\ UNCHANGED <<v_ret, v_exit>>
              ELSE /\ v_trace' = v_trace \o <<"capture", "close">>
                   /\ v_pc' = "done"
                   /\ v_ret' = Strip(t)
                   /\ v_exit' = "value"
    /\ UNCHANGED <<v_attempt, v_opened, v_sleeps>>

\* l.327: vin_element.count() == 0
VinNotRendered ==
    /\ v_pc = "consent_done"
    /\ v_trace' = Append(v_trace, "not_rendered")
    /\ v_pc' = "not_rendered"
    /\ UNCHANGED <<v_attempt, v_open, v_opened, v_sleeps, v_captured, v_ret, v_exit>>

\* l.333-334, 354-355: no "Wyswietl VIN" button: browser.close, return None
VinNoButton ==
    /\ v_pc = "not_rendered"
    /\ v_trace' = Append(Append(v_trace, "no_button"), "close")
    /\ v_open' = {}
    /\ v_pc' = "done"
    /\ v_ret' = None
    /\ v_exit' = "absent"
    /\ UNCHANGED <<v_attempt, v_opened, v_sleeps, v_captured>>

\* l.334-340: the button is there; page.evaluate clicks it
VinClick ==
    /\ v_pc = "not_rendered"
    /\ v_trace' = Append(v_trace, "activate")
    /\ v_pc' = "clicked"
    /\ UNCHANGED <<v_attempt, v_open, v_opened, v_sleeps, v_captured, v_ret, v_exit>>

\* l.343-349: wait_for_selector succeeded and the <p> is there: text_content,
\* browser.close, return vin.strip(); a None text raises inside the inner
\* `try`, is swallowed (l.350), and l.354-355 return None
VinRevealed ==
    /\ v_pc = "clicked"
    /\ \E t \in CapturedTexts \cup {None} :
         /\ v_captured' = t
         /\ v_trace' = Append(Append(v_trace, "capture"), "close")
         /\ v_open' = {}
         /\ v_pc' = "done"
         /\ IF t = None
              THEN /\ v_ret' = None
                   /\ v_exit' = "absent"
              ELSE /\ v_ret' = Strip(t)
                   /\ v_exit' = "value"
    /\ UNCHANGED <<v_attempt, v_opened, v_sleeps>>

\* l.344-355: wait_for_selector timed out (or raised), or the <p> is not there
\* after the wait: `except Exception: pass`, browser.close, return None
VinWaitFails ==
    /\ v_pc = "clicked"
    /\ \E o \in {"wait_timeout", "wait_empty"} :
         v_trace' = Append(Append(v_trace, o), "close")
    /\ v_open' = {}
    /\ v_pc' = "done"
    /\ v_ret' = None
    /\ v_exit' = "absent"
    /\ UNCHANGED <<v_attempt, v_opened, v_sleeps, v_captured>>

\* an await of the attempt raises out of the `async with` block (l.304):
\* goto fails or times out, count()/evaluate()/close() raise.  Leaving the
\* block stops the Playwright driver, which ends the browser it launched.
VinRaiseLeak ==
    /\ v_pc \in InSession
    /\ v_trace' = Append(v_trace, "raise")
    /\ v_pc' = "except"
    /\ UNCHANGED <<v_attempt, v_open, v_opened, v_sleeps, v_captured, v_ret, v_exit>>

VinRaise ==
    /\ v_pc \in InSession
    /\ v_trace' = Append(v_trace, "raise")
    /\ v_open' = {}
    /\ v_pc' = "except"
    /\ UNCHANGED <<v_attempt, v_opened, v_sleeps, v_captured, v_ret, v_exit>>

\* l.356-362: `except Exception`: sleep(5) and retry, or give up
VinExceptGiveUp ==
    /\ v_pc = "except"
    /\ v_pc' = "done"
    /\ v_ret' = None
    /\ v_exit' = "absent"
    /\ UNCHANGED <<v_attempt, v_open, v_opened, v_sleeps, v_trace, v_captured>>

VinExceptAlwaysSleep ==
    /\ v_pc = "except"
    /\ v_sleeps' = v_sleeps + 1
    /\ v_pc' = "cooldown"
    /\ UNCHANGED <<v_attempt, v_open, v_opened, v_trace, v_captured, v_ret, v_exit>>

VinExcept ==
    /\ v_pc = "except"
    /\ IF v_attempt < max_retries
         THEN /\ v_sleeps' = v_sleeps + 1
              /\ v_pc' = "cooldown"
              /\ UNCHANGED <<v_ret, v_exit>>
         ELSE /\ v_pc' = "done"
              /\ v_ret' = None
              /\ v_exit' = "absent"
              /\ UNCHANGED v_sleeps
    /\ UNCHANGED <<v_attempt, v_open, v_opened, v_trace, v_captured>>

\* l.359, 302: the cooldown is over; next iteration of the loop
VinCooldown ==
    /\ v_pc = "cooldown"
    /\ v_attempt' = v_attempt + 1
    /\ v_pc' = "loop"
    /\ UNCHANGED <<v_open, v_opened, v_sleeps, v_trace, v_captured, v_ret, v_exit>>

VinNext ==
    /\ \/ VinLaunch
       \/ VinLaunchFails
       \/ VinGoto
       \/ VinConsent
       \/ VinRendered
       \/ VinNotRendered
       \/ VinNoButton
       \/ VinClick
       \/ VinRevealed
       \/ VinWaitFails
       \/ VinRaise
       \/ VinExcept
       \/ VinCooldown
    /\ UNCHANGED <<fetchVars, buildVars, batchVars, crawlVars, runVars>>

SpecVin == VinInit /\ [][VinNext]_vars

\* every step of the extractor terminates (load and wait timeouts, l.314, 344)
SpecVinFair == SpecVin /\ WF_vars(VinNext)

(* C9: every browser the extractor launched is stopped before it returns   *)
(* and before it handles an exception, sleeps or starts the next attempt,  *)
(* whatever the exit path of the attempt; and a launched browser is always *)
(* eventually stopped (Closed is reached from every protocol state).       *)
C9_SessionAlwaysClosed ==
    /\ [](v_pc \in {"done", "except", "cooldown", "loop"} => v_open = {})
    /\ ((v_open # {}) ~> (v_open = {}))

C9_Witness ==
    /\ v_pc = "done"
    /\ v_exit = "absent"
    /\ v_opened = 3
    /\ v_trace = <<"open", "navigate", "consent_error", "not_rendered", "activate", "raise">>
    /\ v_open = {}

(* C10: one call makes at most max_retries + 1 = 3 attempts, each attempt  *)
(* launches at most one browser and it is a new one, at most one browser   *)
(* of the call is running at any time, exactly one sleep(5) precedes each  *)
(* attempt after the first, and no sleep follows the last attempt.         *)
C10_AttemptsAndCooldowns ==
    /\ v_attempt \in 0..max_retries
    /\ v_opened <= v_attempt + 1
    /\ Cardinality(v_open) <= 1
    /\ v_pc \in InSession => v_open = {v_opened}
    /\ v_pc \in {"loop", "cooldown"} => v_open = {}
    /\ v_sleeps = (IF v_pc = "cooldown" THEN v_attempt + 1 ELSE v_attempt)
    /\ v_pc = "cooldown" => v_attempt < max_retries

C10_Witness ==
    /\ v_pc = "done"
    /\ v_attempt = max_retries
    /\ v_sleeps = 2
    /\ v_opened = 3
    /\ v_trace[Len(v_trace)] = "raise"

\* the last step of the current attempt
LastStep == IF v_trace = <<>> THEN "none" ELSE v_trace[Len(v_trace)]

\* the attempt ended by returning None from inside the `try` (l.354-355)
ReturnedNoneInside ==
    /\ Len(v_trace) >= 2
    /\ LastStep = "close"
    /\ v_trace[Len(v_trace) - 1] \in {"no_button", "wait_timeout", "wait_empty", "capture"}

(* C17 as stated: every failure inside an attempt (button missing, wait    *)
(* timeout, navigation failure) is retried, so the extractor returns       *)
(* absent only after its last attempt.                                     *)
C17_OriginalAbsentOnlyAfterBudget ==
    v_exit = "absent" => v_attempt = max_retries

(* C17 amended: an exception that leaves an attempt (navigation failure or *)
(* timeout, browser error, no text on an already rendered value) is        *)
(* retried after a cooldown while attempts remain, and absent is returned  *)
(* for it only after the third attempt; a missing reveal control, a wait   *)
(* timeout or an empty result of the wait are not retried: they end the    *)
(* call with absent at once, and nothing else returns absent.              *)
C17_OnlyExceptionsRetried ==
    /\ [](v_exit = "absent" =>
            \/ LastStep = "raise" /\ v_attempt = max_retries
            \/ ReturnedNoneInside)
    /\ [](v_pc \in {"except", "cooldown"} => LastStep = "raise")
    /\ [][(v_pc = "except" /\ v_attempt < max_retries) => v_pc' = "cooldown"]_vars
    /\ [][v_pc = "cooldown" => (v_pc' = "loop" /\ v_attempt' = v_attempt + 1)]_vars
    /\ [][(v_pc \in InSession /\ v_pc' = "done") => UNCHANGED <<v_attempt, v_sleeps>>]_vars

C17_Witness ==
    /\ v_pc = "done"
    /\ v_exit = "absent"
    /\ v_attempt = 1
    /\ v_sleeps = 1
    /\ v_trace = <<"open", "navigate", "consent_absent", "not_rendered", "activate",
                   "wait_timeout", "close">>

\* position of the first occurrence of a step in the current attempt, 0 if none
StepAt(step) ==
    IF \E k \in 1..Len(v_trace) : v_trace[k] = step
      THEN CHOOSE k \in 1..Len(v_trace) :
             v_trace[k] = step /\ \A j \in 1..(k - 1) : v_trace[j] # step
      ELSE 0

ConsentSteps == {"consent_absent", "consent_clicked", "consent_error"}

\* the order of the steps inside one attempt; "capture" is step 4 when the
\* value was already rendered and step 6 after the reveal control
StepRank(k) ==
    LET step == v_trace[k]
    IN  IF step = "open" THEN 1
        ELSE IF step = "navigate" THEN 2
        ELSE IF step \in ConsentSteps THEN 3
        ELSE IF step = "not_rendered" THEN 4
        ELSE IF step \in {"activate", "no_button"} THEN 5
        ELSE IF step = "capture"
          THEN (IF StepAt("activate") \in 1..(k - 1) THEN 6 ELSE 4)
        ELSE IF step \in {"wait_timeout", "wait_empty"} THEN 6
        ELSE IF step = "close" THEN 7
        ELSE 8

\* r is t without its leading and trailing blanks
IsTrimOf(r, t) ==
    /\ r = <<>> \/ (~IsBlank(r[1]) /\ ~IsBlank(r[Len(r)]))
    /\ \E i \in 0..Len(t) :
         /\ i + Len(r) <= Len(t)
         /\ SubSeq(t, i + 1, i + Len(r)) = r
         /\ \A k \in (1..i) \cup ((i + Len(r) + 1)..Len(t)) : IsBlank(t[k])

(* C18: the steps of an attempt come in the order open, navigate, consent, *)
(* rendered check, activate, wait, close; the reveal control is activated  *)
(* only after a successful navigation and only when the value was not      *)
(* rendered; an already rendered value is captured and returned without    *)
(* activation; a failed consent step never ends the attempt; a returned    *)
(* value is the trimmed captured text.                                     *)
C18_AttemptOrder ==
    /\ \A k \in 1..(Len(v_trace) - 1) : StepRank(k) < StepRank(k + 1)
    /\ v_trace # <<>> => v_trace[1] \in {"open", "raise"}
    /\ StepAt("activate") > 0 =>
         /\ StepAt("navigate") \in 1..(StepAt("activate") - 1)
         /\ StepAt("not_rendered") \in 1..(StepAt("activate") - 1)
         /\ StepAt("capture") \notin 1..(StepAt("activate") - 1)
    /\ (StepAt("capture") > 0 /\ StepAt("not_rendered") = 0) => StepAt("activate") = 0
    /\ LastStep = "consent_error" => v_pc = "consent_done"
    /\ v_exit = "value" =>
         /\ StepAt("capture") > 0
         /\ v_captured # None
         /\ IsTrimOf(v_ret, v_captured)
    /\ v_exit = "absent" => v_ret = None

C18_Witness ==
    /\ v_pc = "done"
    /\ v_exit = "value"
    /\ v_trace = <<"open", "navigate", "consent_error", "not_rendered", "activate",
                   "capture", "close">>
    /\ v_captured = <<" ", "V", "1", " ">>
    /\ v_ret = <<"V", "1">>

----------------------------------------------------------------------------
(* fetch_car_details: the static part                                      *)
(*                                                                         *)
(* A soup is what BeautifulSoup(html) answers to the selectors used:       *)
(*   h1         text of the first <h1>, or None                            *)
(*   desc       the <p> texts of content-description-section, or None      *)
(*   price      text of the price tag, or None                             *)
(*   testid     for a data-testid key, the <p> texts inside that <div>     *)
(*              (<<>> when there is no such <div>)                         *)
(*   labels     the texts of the ooa-11fwepm paragraphs                    *)
(*   details    the offer-params table: label -> value text, or None       *)
(*   advert_vin text of the first <p> of the advert-vin <div>, or None     *)
(*   indicator  the price-indicator-label-* paragraph                      *)
(***************************************************************************)

TestIds == {"make", "model", "door_count", "body_type", "color", "gearbox",
            "vin", "first_registration", "no_accident", "transmission",
            "country_origin", "new_used", "date_registration", "engine_power",
            "year"}

LegacyLabels == {"rok produkcji", "moc", "vin", "liczba drzwi", "nadwozie",
                 "kolor", "skrzynia biegow", "pierwsza rejestracja", "naped"}

NoneInt == -1
UNKNOWN == <<"u", "n", "k", "n", "o", "w", "n">>
USED == <<"u", "s", "e", "d">>

DigitChars == <<"0", "1", "2", "3", "4", "5", "6", "7", "8", "9">>
IsDigit(c) == \E k \in 1..10 : DigitChars[k] = c
DigitVal(c) == (CHOOSE k \in 1..10 : DigitChars[k] = c) - 1

\* re.sub(r'\D', '', t)
RECURSIVE DigitsOnly(_)
DigitsOnly(t) ==
    IF t = <<>> THEN <<>>
    ELSE (IF IsDigit(t[1]) THEN <<t[1]>> ELSE <<>>) \o DigitsOnly(Tail(t))

\* int(d) for a non-empty text of digits
RECURSIVE ToInt(_)
ToInt(d) ==
    IF d = <<>> THEN 0
    ELSE 10 * ToInt(SubSeq(d, 1, Len(d) - 1)) + DigitVal(d[Len(d)])

\* the leading digits of t
RECURSIVE DigitPrefix(_)
DigitPrefix(t) ==
    IF t # <<>> /\ IsDigit(t[1]) THEN <<t[1]>> \o DigitPrefix(Tail(t)) ELSE <<>>

\* re.search(r'\d+', t).group(), <<>> when there is no match
RECURSIVE FirstDigitRun(_)
FirstDigitRun(t) ==
    IF t = <<>> THEN <<>>
    ELSE IF IsDigit(t[1]) THEN DigitPrefix(t)
    ELSE FirstDigitRun(Tail(t))

\* re.search(r'\d{4}', t).group(), <<>> when there is no match
RECURSIVE FirstFourDigits(_)
FirstFourDigits(t) ==
    IF Len(t) < 4 THEN <<>>
    ELSE IF \A k \in 1..4 : IsDigit(t[k]) THEN SubSeq(t, 1, 4)
    ELSE FirstFourDigits(Tail(t))

\* `pat in t`
RECURSIVE Contains(_, _)
Contains(t, pat) ==
    IF Len(t) < Len(pat) THEN FALSE
    ELSE IF SubSeq(t, 1, Len(pat)) = pat THEN TRUE
    ELSE Contains(Tail(t), pat)

\* str.lower() on the letters A-Z
UpperChars == <<"A", "B", "C", "D", "E", "F", "G", "H", "I", "J", "K", "L", "M",
                "N", "O", "P", "Q", "R", "S", "T", "U", "V", "W", "X", "Y", "Z">>
LowerChars == <<"a", "b", "c", "d", "e", "f", "g", "h", "i", "j", "k", "l", "m",
                "n", "o", "p", "q", "r", "s", "t", "u", "v", "w", "x", "y", "z">>
LowerChar(c) ==
    IF \E k \in 1..Len(UpperChars) : UpperChars[k] = c
      THEN LowerChars[CHOOSE k \in 1..Len(UpperChars) : UpperChars[k] = c]
      ELSE c
Lower(t) == [k \in 1..Len(t) |-> LowerChar(t[k])]

FuelNames == { <<"b", "e", "n", "z", "y", "n", "a">>, <<"d", "i", "e", "s", "e", "l">>,
               <<"h", "y", "b", "r", "y", "d", "a">>,
               <<"e", "l", "e", "k", "t", "r", "y", "c", "z", "n", "y">>,
               <<"l", "p", "g">>, <<"c", "n", "g">> }

\* Python `a or b`
Or(a, b) == IF Truthy(a) THEN a ELSE b

\* "\n".join(texts)
RECURSIVE JoinLines(_)
JoinLines(ps) ==
    IF ps = <<>> THEN <<>>
    ELSE IF Len(ps) = 1 THEN ps[1]
    ELSE ps[1] \o <<"\n">> \o JoinLines(Tail(ps))

\* l.151-159: the last <p> of the <div data-testid=...>, when it has two
extract_data_testid_value_first(soup, testid) ==
    LET ps == soup.testid[testid]
    IN  IF Len(ps) >= 2 THEN Strip(ps[1]) ELSE None

extract_data_testid_value(soup, testid) ==
    LET ps == soup.testid[testid]
    IN  IF Len(ps) >= 2 THEN Strip(ps[Len(ps)]) ELSE None

\* l.198-203 and details.get(label): the stripped value text, or None
DetailsGet(soup, label) ==
    IF soup.details[label] # None THEN Strip(soup.details[label]) ELSE None

\* l.139-140
FullName(soup) == IF soup.h1 # None THEN Strip(soup.h1) ELSE UNKNOWN

\* l.142-145
Description(soup) ==
    IF soup.desc # None
      THEN JoinLines([k \in 1..Len(soup.desc) |-> Strip(soup.desc[k])])
      ELSE <<>>

\* l.147-148: int('') raises ValueError when the price tag has no digit
PriceRaises(soup) == soup.price # None /\ DigitsOnly(soup.price) = <<>>
PricePln(soup) == IF soup.price # None THEN ToInt(DigitsOnly(soup.price)) ELSE 0

\* l.179-184
KeyedEnginePower(soup) ==
    LET t == extract_data_testid_value(soup, "engine_power")
    IN  IF Truthy(t) /\ FirstDigitRun(t) # <<>>
          THEN ToInt(FirstDigitRun(t)) ELSE NoneInt

\* l.186-195: the last label of each kind wins
RECURSIVE ScanLabels(_, _)
ScanLabels(labels, acc) ==
    IF labels = <<>> THEN acc
    ELSE LET text == Strip(labels[1])
             nxt  == IF Contains(text, <<"k", "m">>)
                       THEN [acc EXCEPT !.mileage = text]
                     ELSE IF Contains(text, <<"c", "m", "3">>)
                       THEN [acc EXCEPT !.engine_capacity = text]
                     ELSE IF Lower(text) \in FuelNames
                       THEN [acc EXCEPT !.fuel_type = text]
                     ELSE acc
         IN  ScanLabels(Tail(labels), nxt)

DetailLabels(soup) ==
    ScanLabels(soup.labels,
               [fuel_type |-> None, mileage |-> None, engine_capacity |-> None])

\* l.205-206
Year(soup) ==
    LET year_text == Or(DetailsGet(soup, "rok produkcji"),
                        extract_data_testid_value(soup, "year"))
    IN  IF Truthy(year_text) /\ FirstFourDigits(year_text) # <<>>
          THEN ToInt(FirstFourDigits(year_text)) ELSE 0

\* l.208-211
EnginePower(soup) ==
    LET keyed == KeyedEnginePower(soup)
        moc   == DetailsGet(soup, "moc")
    IN  IF (keyed = NoneInt \/ keyed = 0) /\ Truthy(moc) /\ FirstDigitRun(moc) # <<>>
          THEN ToInt(FirstDigitRun(moc)) ELSE keyed

----------------------------------------------------------------------------
(* int(price * factor) of l.242-250.  price * 0.85 is a multiplication of  *)
(* IEEE-754 doubles: the exact product of the integer price and the double *)
(* nearest to the factor, rounded to 53 significant bits (ties to even);   *)
(* int() then drops the fraction.  The product is computed in limbs of 13  *)
(* bits and rounded as a bit sequence, least significant bit first.        *)
(***************************************************************************)

RECURSIVE FromBits(_)
FromBits(b) == IF b = <<>> THEN 0 ELSE b[1] + 2 * FromBits(Tail(b))

Zeros(k) == [j \in 1..k |-> 0]

\* the integers are kept in limbs of 13 bits, least significant limb first
Limb == 8192
PowersOf2 == <<1, 2, 4, 8, 16, 32, 64, 128, 256, 512, 1024, 2048, 4096>>

LimbAt(l, k) == IF k >= 0 /\ k + 1 <= Len(l) THEN l[k + 1] ELSE 0

\* schoolbook product of two limb sequences, before the carries
Columns(a, b) ==
    [k \in 1..(Len(a) + Len(b)) |->
        LET Term(i) == LimbAt(a, i) * LimbAt(b, k - 1 - i)
        IN  Term(0) + Term(1) + Term(2)]

RECURSIVE Carry(_, _)
Carry(cols, c) ==
    IF cols = <<>> THEN <<>>
    ELSE <<(cols[1] + c) % Limb>> \o Carry(Tail(cols), (cols[1] + c) \div Limb)

\* the bits of a limb sequence
LimbBits(l) ==
    [j \in 1..(13 * Len(l)) |->
        (l[((j - 1) \div 13) + 1] \div PowersOf2[((j - 1) % 13) + 1]) % 2]

\* number of significant bits among the first k
RECURSIVE BitLenUpTo(_, _)
BitLenUpTo(b, k) ==
    IF k = 0 THEN 0 ELSE IF b[k] = 1 THEN k ELSE BitLenUpTo(b, k - 1)

BitLen(b) == BitLenUpTo(b, Len(b))

\* position of the lowest 0 bit from k on, Len(b) + 1 when there is none
RECURSIVE LowestZero(_, _)
LowestZero(b, k) ==
    IF k > Len(b) THEN k ELSE IF b[k] = 0 THEN k ELSE LowestZero(b, k + 1)

\* b + 1
BitsInc(b) ==
    LET z == LowestZero(b, 1)
    IN  IF z > Len(b) THEN Zeros(Len(b)) \o <<1>>
        ELSE [j \in 1..Len(b) |-> IF j < z THEN 0 ELSE IF j = z THEN 1 ELSE b[j]]

\* the doubles nearest to the factors of l.242-249, as mantissa * 2^(exp-52)
\* with mantissa = hi * 2^26 + lo
Factor085 == [hi |-> 114085068, lo |-> 53687091, exp |-> -1]
Factor115 == [hi |-> 77175193, lo |-> 40265318, exp |-> 0]
Factor090 == [hi |-> 120795955, lo |-> 13421773, exp |-> -1]
Factor110 == [hi |-> 73819750, lo |-> 26843546, exp |-> 0]

\* the 53-bit mantissa in limbs
Mantissa(f) ==
    <<f.lo % Limb, f.lo \div Limb, f.hi % Limb, (f.hi \div Limb) % Limb,
      f.hi \div (Limb * Limb)>>

IntLimbs(n) == <<n % Limb, (n \div Limb) % Limb, n \div (Limb * Limb)>>

\* round an exact integer (bits) to 53 significant bits, ties to even
RoundTo53(n) ==
    LET len == BitLen(n)
        s   == len - 53
    IN  IF s <= 0 THEN SubSeq(n, 1, len)
        ELSE LET q    == SubSeq(n, s + 1, len)
                 low  == \E j \in 1..(s - 1) : n[j] = 1
                 up   == n[s] = 1 /\ (low \/ q[1] = 1)
             IN  Zeros(s) \o (IF up THEN BitsInc(q) ELSE q)

\* int(price * factor)
FloatMulFloor(price, f) ==
    LET prod == RoundTo53(LimbBits(Carry(Columns(IntLimbs(price), Mantissa(f)), 0)))
        drop == 52 - f.exp
    IN  IF Len(prod) <= drop THEN 0
        ELSE FromBits(SubSeq(prod, drop + 1, Len(prod)))

\* str(n) for n >= 0
RECURSIVE IntToText(_)
IntToText(n) ==
    IF n < 10 THEN <<DigitChars[n + 1]>>
    ELSE IntToText(n \div 10) \o <<DigitChars[(n % 10) + 1]>>

\* l.222-225
PriceIndicator(soup) ==
    IF soup.indicator.present THEN Strip(soup.indicator.text) ELSE None

\* \w of a regular expression, on the characters of the model
IsWordChar(c) ==
    \/ IsDigit(c)
    \/ c = "_"
    \/ \E k \in 1..Len(UpperChars) : UpperChars[k] = c \/ LowerChars[k] = c

\* l.228-229: group(1) of price-indicator-label-(\w+) on the data-testid;
\* soup.indicator.testid is what follows "price-indicator-label-" there, and
\* <<>> stands for no match
RECURSIVE WordPrefix(_)
WordPrefix(t) ==
    IF t # <<>> /\ IsWordChar(t[1]) THEN <<t[1]>> \o WordPrefix(Tail(t)) ELSE <<>>

ABOVE == <<"A", "B", "O", "V", "E">>
BELOW == <<"B", "E", "L", "O", "W">>
IN_ == <<"I", "N">>
Dash == <<"-">>
PLN == <<" ", "P", "L", "N">>

\* l.237-250: f"{lower_bound}-{upper_bound} PLN" for a price and an indicator
\* type, None when the type is none of the three
Estimate(price, type) ==
    IF type = ABOVE
      THEN IntToText(FloatMulFloor(price, Factor085)) \o Dash \o IntToText(price) \o PLN
    ELSE IF type = BELOW
      THEN IntToText(price) \o Dash \o IntToText(FloatMulFloor(price, Factor115)) \o PLN
    ELSE IF type = IN_
      THEN IntToText(FloatMulFloor(price, Factor090)) \o Dash
           \o IntToText(FloatMulFloor(price, Factor110)) \o PLN
    ELSE None

\* l.218-252: price_range; the ValueError of int('') is caught at l.251
PriceRange(soup) ==
    IF ~soup.indicator.present THEN None
    ELSE LET type == WordPrefix(soup.indicator.testid)
         IN  IF type = <<>> \/ soup.price = None THEN None
             ELSE IF DigitsOnly(soup.price) = <<>> THEN None
             ELSE Estimate(ToInt(DigitsOnly(soup.price)), type)

\* l.214, 254-266: the VIN chain.  pw_vin is what extract_vin_with_playwright
\* returned
ResolveVinStaticFirst(soup, pw_vin) ==
    LET s1 == IF soup.advert_vin # None THEN Strip(soup.advert_vin) ELSE None
        s2 == IF ~Truthy(s1) THEN extract_data_testid_value(soup, "vin") ELSE s1
        s3 == IF ~Truthy(s2) /\ Truthy(DetailsGet(soup, "vin"))
                THEN DetailsGet(soup, "vin") ELSE s2
    IN  IF Truthy(s3) THEN s3 ELSE pw_vin

ResolveVin(soup, pw_vin) ==
    IF Truthy(pw_vin) THEN pw_vin
    ELSE LET v1 == IF soup.advert_vin # None THEN Strip(soup.advert_vin) ELSE pw_vin
             v2 == IF ~Truthy(v1) THEN extract_data_testid_value(soup, "vin") ELSE v1
         IN  IF ~Truthy(v2) /\ Truthy(DetailsGet(soup, "vin"))
               THEN DetailsGet(soup, "vin") ELSE v2

\* l.62-91: Car.__post_init__
PostInitOneDefault(car) ==
    LET dflt(x, d) == IF x = None THEN d ELSE x
    IN  [car EXCEPT
           !.door_count = dflt(@, UNKNOWN),
           !.vin = dflt(@, UNKNOWN),
           !.body_type = dflt(@, UNKNOWN),
           !.color = dflt(@, UNKNOWN),
           !.gearbox = dflt(@, UNKNOWN),
           !.engine_power = IF @ = NoneInt THEN 0 ELSE @,
           !.date_registration = dflt(@, UNKNOWN),
           !.transmission = dflt(@, UNKNOWN),
           !.price_indicator = dflt(@, UNKNOWN),
           !.price_range = dflt(@, UNKNOWN),
           !.no_accident = dflt(@, UNKNOWN),
           !.country_origin = dflt(@, UNKNOWN),
           !.new_used = dflt(@, UNKNOWN),
           !.registration_date_history = dflt(@, UNKNOWN)]

PostInit(car) ==
    LET dflt(x, d) == IF x = None THEN d ELSE x
    IN  [car EXCEPT
           !.door_count = dflt(@, UNKNOWN),
           !.vin = dflt(@, UNKNOWN),
           !.body_type = dflt(@, UNKNOWN),
           !.color = dflt(@, UNKNOWN),
           !.gearbox = dflt(@, UNKNOWN),
           !.engine_power = IF @ = NoneInt THEN 0 ELSE @,
           !.date_registration = dflt(@, UNKNOWN),
           !.transmission = dflt(@, UNKNOWN),
           !.price_indicator = dflt(@, UNKNOWN),
           !.price_range = dflt(@, UNKNOWN),
           !.no_accident = dflt(@, UNKNOWN),
           !.country_origin = dflt(@, UNKNOWN),
           !.new_used = dflt(@, USED),
           !.registration_date_history = dflt(@, UNKNOWN)]

\* l.269-294: the arguments of Car(...), given a soup whose price parses
CarArgs(url, soup, pw_vin) ==
    LET dl == DetailLabels(soup)
        kv(testid) == extract_data_testid_value(soup, testid)
    IN  [link |-> url,
         full_name |-> FullName(soup),
         description |-> Description(soup),
         year |-> Year(soup),
         mileage_km |-> IF Truthy(dl.mileage) THEN dl.mileage ELSE None,
         engine_capacity |-> IF Truthy(dl.engine_capacity) THEN dl.engine_capacity ELSE None,
         fuel_type |-> IF Truthy(dl.fuel_type) THEN dl.fuel_type ELSE None,
         price_pln |-> PricePln(soup),
         make |-> kv("make"),
         model |-> kv("model"),
         door_count |-> Or(kv("door_count"), DetailsGet(soup, "liczba drzwi")),
         vin |-> ResolveVin(soup, pw_vin),
         body_type |-> Or(kv("body_type"), DetailsGet(soup, "nadwozie")),
         color |-> Or(kv("color"), DetailsGet(soup, "kolor")),
         gearbox |-> Or(kv("gearbox"), DetailsGet(soup, "skrzynia biegow")),
         engine_power |-> EnginePower(soup),
         date_registration |-> Or(kv("first_registration"), DetailsGet(soup, "pierwsza rejestracja")),
         transmission |-> Or(kv("transmission"), DetailsGet(soup, "naped")),
         price_indicator |-> PriceIndicator(soup),
         price_range |-> PriceRange(soup),
         no_accident |-> kv("no_accident"),
         country_origin |-> kv("country_origin"),
         new_used |-> kv("new_used"),
         registration_date_history |-> kv("date_registration")]

\* l.269: Car(...) runs the generated __init__ and then __post_init__
BuildCar(url, soup, pw_vin) == PostInit(CarArgs(url, soup, pw_vin))

\* l.134-297: the whole builder; an exception inside the `try` gives None
fetch_car_details_propagating(url, soup, pw_vin) ==
    IF PriceRaises(soup) THEN [raised |-> TRUE] ELSE BuildCar(url, soup, pw_vin)

fetch_car_details(url, soup, pw_vin) ==
    IF PriceRaises(soup) THEN NoCar ELSE BuildCar(url, soup, pw_vin)

----------------------------------------------------------------------------
(* transform_car_to_schema (l.394-437) *)

TAK == <<"t", "a", "k">>
NOWY == <<"n", "o", "w", "y">>
NEW_ == <<"n", "e", "w">>
PL == <<"p", "l">>

\* l.396
NoAccidentValueExact(car) ==
    IF Truthy(car.no_accident) /\ car.no_accident = <<"T", "a", "k">> THEN 1 ELSE 0

NoAccidentValue(car) ==
    IF Truthy(car.no_accident) /\ Lower(car.no_accident) = TAK THEN 1 ELSE 0

\* l.432
NewUsed(car) ==
    IF Truthy(car.new_used) /\ Lower(car.new_used) = NOWY THEN NEW_ ELSE USED

\* x.lower() if x else ""
LowerOrEmpty(x) == IF Truthy(x) THEN Lower(x) ELSE <<>>

\* re.sub(r"[^\d]", "", x) if x else ""
DigitsOrEmpty(x) == IF Truthy(x) THEN DigitsOnly(x) ELSE <<>>

transform_car_to_schema(car) ==
    [params |->
       [door_count |-> car.door_count,
        vin |-> car.vin,
        make |-> LowerOrEmpty(car.make),
        model |-> LowerOrEmpty(car.model),
        is_imported_car |-> 0,
        fuel_type |-> LowerOrEmpty(car.fuel_type),
        no_accident |-> NoAccidentValue(car),
        body_type |-> car.body_type,
        mileage |-> DigitsOrEmpty(car.mileage_km),
        color |-> car.color,
        year |-> IntToText(car.year),
        price |-> [label |-> <<"p", "r", "i", "c", "e">>,
                   amount |-> IntToText(car.price_pln),
                   currency |-> <<"P", "L", "N">>,
                   gross_net |-> <<"g", "r", "o", "s", "s">>],
        engine_capacity |-> DigitsOrEmpty(car.engine_capacity),
        engine_power |-> car.engine_power,
        gearbox |-> car.gearbox,
        transmission |-> car.transmission,
        antilock_brake_system |-> None,
        apple_carplay |-> None,
        metallic |-> None,
        country_origin |-> IF Truthy(car.country_origin)
                             THEN Lower(car.country_origin) ELSE PL,
        date_registration |-> Or(car.registration_date_history, car.date_registration),
        has_registration |-> 1,
        cepik_authorization |-> 1],
     title |-> car.full_name,
     description |-> car.description,
     new_used |-> NewUsed(car),
     category_id |-> 29,
     url |-> car.link,
     price_indicator |-> car.price_indicator,
     price_range |-> car.price_range]

----------------------------------------------------------------------------
(* fetch_car_details as a process: one call on one detail page *)

NoTestIds == [k \in TestIds |-> <<>>]
NoDetails == [k \in LegacyLabels |-> None]
NoIndicator == [present |-> FALSE, testid |-> <<>>, text |-> <<>>]

\* BeautifulSoup("") : nothing is found
EmptySoup ==
    [h1 |-> None, desc |-> None, price |-> None, testid |-> NoTestIds,
     labels |-> <<>>, details |-> NoDetails, advert_vin |-> None,
     indicator |-> NoIndicator]

Lbl == <<"l", "b", "l">>

\* a detail page with every block present
RichSoup ==
    [h1 |-> <<" ", "K", "i", "a", " ">>,
     desc |-> << <<"o", "k", " ">>, <<"n", "e", "w">> >>,
     price |-> <<"9", " ", "5", "0", "0", " ", "P", "L", "N">>,
     testid |-> [NoTestIds EXCEPT
                   !["make"] = <<Lbl, <<"K", "i", "a">> >>,
                   !["model"] = <<Lbl, <<"R", "i", "o">> >>,
                   !["door_count"] = <<Lbl, <<"5">> >>,
                   !["no_accident"] = <<Lbl, <<"T", "a", "k">> >>,
                   !["new_used"] = <<Lbl, <<"N", "o", "w", "y">> >>,
                   !["engine_power"] = <<Lbl, <<"9", "0", " ", "K", "M">> >>,
                   !["year"] = <<Lbl, <<"2", "0", "1", "9">> >>],
     labels |-> << <<"1", "2", " ", "k", "m">>, <<"9", "9", "8", " ", "c", "m", "3">>,
                   <<"D", "i", "e", "s", "e", "l">> >>,
     details |-> [NoDetails EXCEPT
                   !["rok produkcji"] = <<"2", "0", "1", "8">>,
                   !["kolor"] = <<"r", "e", "d">>],
     advert_vin |-> None,
     indicator |-> [present |-> TRUE, testid |-> <<"I", "N">>, text |-> <<"o", "k">>]]

\* the detail pages of the model.  First every combination of the VIN blocks
\* and of the price tag, on the rich page and on the empty one
AdvertVins == {None, <<" ">>, <<"A", "1", " ">>}
KeyedVins  == {<<>>, <<Lbl, <<"K", "1">> >>, <<Lbl, <<>> >>, << <<"K", "1">> >>}
LegacyVins == {None, <<"L", "1">>}
PriceTags  == {None, <<"9", " ", "5", "0", "0", " ", "P", "L", "N">>, <<"z", "l">>}

VinSoups ==
    { [base EXCEPT !.advert_vin = a, !.testid["vin"] = k,
                   !.details["vin"] = l, !.price = pr] :
        base \in {RichSoup, EmptySoup}, a \in AdvertVins, k \in KeyedVins,
        l \in LegacyVins, pr \in PriceTags }

\* price tags and price-indicator paragraphs: the three indicator types, NONE,
\* a type in small letters, a data-testid that ends after the last "-", and a
\* page without the paragraph
RangePriceTags ==
    { None, <<"z", "l">>, <<"0">>, <<"7", " ", "P", "L", "N">>,
      <<"9", " ", "5", "0", "0", " ", "P", "L", "N">>,
      <<"1", "0", "0", " ", "0", "0", "0", " ", "P", "L", "N">> }

Indicators ==
    {NoIndicator}
    \cup { [present |-> TRUE, testid |-> t, text |-> <<" ", "o", "k", " ">>] :
             t \in { ABOVE, BELOW, IN_, <<"N", "O", "N", "E">>, <<"i", "n">>,
                     <<"I", "N", "-", "x">>, <<>> } }

RangeSoups ==
    { [RichSoup EXCEPT !.price = pr, !.indicator = ind] :
        pr \in RangePriceTags, ind \in Indicators }

\* a keyed block: no <div>, a <div> with a label and a value
Keyed(values) == {<<>>} \cup { <<Lbl, v>> : v \in values }

\* the blocks transform_car_to_schema looks at
SchemaSoups ==
    { [RichSoup EXCEPT !.testid["no_accident"] = na, !.testid["new_used"] = nu,
                       !.testid["country_origin"] = co] :
        na \in Keyed({ <<"T", "a", "k">>, <<"T", "A", "K">>, <<"t", "a", "k">>,
                       <<"t", "a", "K", " ">>, <<"N", "i", "e">>, <<"t", "a", "k", "1">>,
                       <<>> }),
        nu \in Keyed({ <<"N", "o", "w", "y">>, <<"N", "O", "W", "Y">>,
                       <<"n", "o", "w", "y">>, <<"n", "o", "w", "a">>,
                       <<"U", "z", "y", "w", "a", "n", "y">>, <<>> }),
        co \in Keyed({ <<"N", "i", "e", "m", "c", "y">>, <<"P", "L">>, <<>> }) }

\* year and engine power in the keyed block and in the legacy table: absent,
\* with digits, without digits
NumberSoups ==
    { [RichSoup EXCEPT !.testid["year"] = ky, !.details["rok produkcji"] = ly,
                       !.testid["engine_power"] = kp, !.details["moc"] = lp] :
        ky \in Keyed({ <<"2", "0", "1", "9">>, <<"r", "o", "k">> }),
        ly \in { None, <<"2", "0", "1", "8">>, <<"x">> },
        kp \in Keyed({ <<"9", "0", " ", "K", "M">>, <<"0", " ", "K", "M">>, <<"K", "M">> }),
        lp \in { None, <<"7", "5", " ", "K", "M">>, <<"K", "M">> } }

\* the six text fields with two sources, all set the same way
DualTestIds == <<"door_count", "body_type", "color", "gearbox", "first_registration",
                 "transmission">>
DualLabels == <<"liczba drzwi", "nadwozie", "kolor", "skrzynia biegow",
                "pierwsza rejestracja", "naped">>

DualSoups ==
    { [RichSoup EXCEPT
         !.testid = [t \in TestIds |->
                       IF \E k \in 1..6 : DualTestIds[k] = t THEN kb ELSE @[t]],
         !.details = [l \in LegacyLabels |->
                       IF \E k \in 1..6 : DualLabels[k] = l THEN lv ELSE @[l]]] :
        kb \in Keyed({ <<"k", "e", "y">>, <<>> }),
        lv \in { None, <<"o", "l", "d">>, <<>> } }

\* the ooa-11fwepm paragraphs
LabelSoups ==
    { [base EXCEPT !.labels = ls] :
        base \in {RichSoup, EmptySoup},
        ls \in { <<>>, << <<"k", "m">>, <<"c", "m", "3">> >>,
                 << <<"L", "P", "G">>, <<"1", "2", " ", "k", "m">> >> } }

BuildSoups ==
    VinSoups \cup RangeSoups \cup SchemaSoups \cup NumberSoups \cup DualSoups
    \cup LabelSoups

\* the values extract_vin_with_playwright can return
VinReturns == {None} \cup {Strip(t) : t \in CapturedTexts}

BuildInit ==
    /\ b_pc = "fetch"
    /\ b_url \in {"u1", "u2"}
    /\ b_soup = NoCar
    /\ b_pw = None
    /\ b_car = NoCar
    /\ b_outs = <<>>
    \* fetch_html is not running
    /\ f_pc = "idle"
    /\ f_retries = 0
    /\ f_attempt = 0
    /\ f_log = <<>>
    /\ f_long = 0
    /\ f_std = 0
    /\ f_ret = None
    /\ f_exit = "running"
    \* extract_vin_with_playwright is not running
    /\ v_pc = "idle"
    /\ v_attempt = 0
    /\ v_open = {}
    /\ v_opened = 0
    /\ v_sleeps = 0
    /\ v_trace = <<>>
    /\ v_captured = None
    /\ v_ret = None
    /\ v_exit = "running"
    \* scrape is not running
    /\ s_pc = "idle"
    /\ all_links = <<>>
    /\ s_i = 0
    /\ chunks = <<>>
    /\ t_state = <<>>
    /\ t_result = <<>>
    /\ launched = <<>>
    /\ cars = <<>>
    /\ s_sleeps = 0
    /\ max_pages = 0
    /\ c_page = 0
    /\ c_log = <<>>
    /\ c_soups = <<>>
    /\ c_req = 0
    /\ t_req = <<>>
    /\ t_fetched = <<>>
    /\ t_soup = <<>>
    /\ t_sess = <<>>
    /\ t_vin = <<>>

\* l.136-137: html = await fetch_html(...); soup = BeautifulSoup(html)
BuildFetched ==
    /\ b_pc = "fetch"
    /\ b_soup' \in BuildSoups
    /\ b_pc' = "parse"
    /\ UNCHANGED <<b_url, b_pw, b_car, b_outs>>

\* l.139-211: the static extraction went through
BuildParsed ==
    /\ b_pc = "parse"
    /\ ~PriceRaises(b_soup)
    /\ b_pc' = "vin"
    /\ UNCHANGED <<b_url, b_soup, b_pw, b_car, b_outs>>

\* l.148, 295-297: int('') raised; `except Exception` returns None
BuildParseRaises ==
    /\ b_pc = "parse"
    /\ PriceRaises(b_soup)
    /\ b_car' = fetch_car_details(b_url, b_soup, b_pw)
    /\ b_pc' = "done"
    /\ UNCHANGED <<b_url, b_soup, b_pw, b_outs>>

\* l.214: vin = await extract_vin_with_playwright(url)
BuildVin ==
    /\ b_pc = "vin"
    /\ b_pw' \in VinReturns
    /\ b_pc' = "assemble"
    /\ UNCHANGED <<b_url, b_soup, b_car, b_outs>>

\* l.218-294: price indicator, VIN fallbacks, return Car(...)
BuildReturn ==
    /\ b_pc = "assemble"
    /\ b_car' = fetch_car_details(b_url, b_soup, b_pw)
    /\ b_pc' = "done"
    /\ UNCHANGED <<b_url, b_soup, b_pw, b_outs>>

\* l.463: transform_car_to_schema(car) on a returned record; the record is
\* only read
BuildTransform ==
    /\ b_pc = "done"
    /\ b_car # NoCar
    /\ Len(b_outs) < MaxTransforms
    /\ b_outs' = Append(b_outs, transform_car_to_schema(b_car))
    /\ UNCHANGED <<b_pc, b_url, b_soup, b_pw, b_car>>

BuildNext ==
    /\ \/ BuildFetched
       \/ BuildParsed
       \/ BuildParseRaises
       \/ BuildVin
       \/ BuildReturn
       \/ BuildTransform
    /\ UNCHANGED <<fetchVars, vinVars, batchVars, crawlVars, runVars>>

SpecBuild == BuildInit /\ [][BuildNext]_vars

\* the four VIN sources of a finished call, in the order of the chain
VinSources ==
    << b_pw,
       IF b_soup.advert_vin # None THEN Strip(b_soup.advert_vin) ELSE None,
       extract_data_testid_value(b_soup, "vin"),
       DetailsGet(b_soup, "vin") >>

Yielding == {k \in 1..4 : Truthy(VinSources[k])}

(* C8: the VIN of a built record is the value of the first of              *)
(* (1) extract_vin_with_playwright, (2) the advert-vin block, (3) the      *)
(* keyed lookup, (4) the legacy table that yields a value (a non-empty     *)
(* text); a value of the extractor wins over any static value; and the     *)
(* VIN is "unknown" only when none of the four yields a value.             *)
C8_VinFirstSuccessWins ==
    (b_pc = "done" /\ b_car # NoCar) =>
        /\ Yielding # {} =>
             b_car.vin = VinSources[CHOOSE k \in Yielding : \A j \in Yielding : k <= j]
        /\ Truthy(b_pw) => b_car.vin = b_pw
        /\ b_car.vin = UNKNOWN => Yielding = {}

C8_Witness ==
    /\ b_pc = "done"
    /\ b_car # NoCar
    /\ b_pw = <<"V", "1">>
    /\ b_soup.advert_vin = <<"A", "1", " ">>
    /\ DetailsGet(b_soup, "vin") = <<"L", "1">>
    /\ b_car.vin = <<"V", "1">>

\* l.47-60: the attributes declared Optional[str], but for new_used
OptionalText == {"door_count", "vin", "body_type", "color", "gearbox",
                 "date_registration", "transmission", "price_indicator",
                 "price_range", "no_accident", "country_origin",
                 "registration_date_history"}

\* l.37-46: the attributes declared without a default
RequiredText == {"link", "full_name", "description", "mileage_km",
                 "engine_capacity", "fuel_type", "make", "model"}
IntAttributes == {"year", "price_pln", "engine_power"}

\* Car(...) was called with None for every Optional attribute
NoneSupplied(args) ==
    /\ \A f \in OptionalText : args[f] = None
    /\ args.new_used = None
    /\ args.engine_power = NoneInt

Returned == b_pc = "done" /\ b_car # NoCar

(* C12: a record constructed with none of its optional attributes supplied  *)
(* has "unknown" in every optional string attribute, 0 in engine_power and  *)
(* "used" in new_used; none of them is None.                                *)
C12_DefaultsWhenNotSupplied ==
    (Returned /\ NoneSupplied(CarArgs(b_url, b_soup, b_pw))) =>
        /\ \A f \in OptionalText : b_car[f] = UNKNOWN
        /\ b_car.engine_power = 0
        /\ b_car.new_used = USED

C12_Witness ==
    /\ Returned
    /\ b_soup = EmptySoup
    /\ b_pw = None
    /\ NoneSupplied(CarArgs(b_url, b_soup, b_pw))
    /\ b_car.new_used = USED
    /\ b_car.price_range = UNKNOWN

(* C13: every attribute of every record the builder returns (and the        *)
(* transformer receives) is a concrete value, never None: also make, model, *)
(* mileage_km, engine_capacity and fuel_type, whatever the page lacks.      *)
C13_NoAbsentAttribute ==
    Returned =>
        /\ \A f \in OptionalText \cup RequiredText \cup {"new_used"} : b_car[f] # None
        /\ \A f \in IntAttributes : b_car[f] # NoneInt

\* the two numbers of a price_range text "lower-upper PLN"
RangeLower(t) == ToInt(DigitPrefix(t))
RangeUpper(t) == ToInt(DigitPrefix(SubSeq(t, Len(DigitPrefix(t)) + 2, Len(t))))

\* the indicator type of the fetched page, <<>> when there is none
IndicatorType ==
    IF b_soup.indicator.present THEN WordPrefix(b_soup.indicator.testid) ELSE <<>>

(* C14: the price range of a returned record is (0.85*price, price) for    *)
(* ABOVE, (price, 1.15*price) for BELOW, (0.9*price, 1.1*price) for IN, and *)
(* absent for NONE, any other indicator or a missing price; for price      *)
(* 100000 the ranges are 90000-110000 (IN), 85000-100000 (ABOVE) and       *)
(* 100000-115000 (BELOW); a produced range has lower <= price <= upper.    *)
C14_EstimateAsSpecified ==
    Returned =>
        LET price == b_car.price_pln
            range == b_car.price_range
        IN  /\ (IndicatorType \notin {ABOVE, BELOW, IN_} \/ b_soup.price = None)
                 => range = UNKNOWN
            /\ (IndicatorType \in {ABOVE, BELOW, IN_} /\ b_soup.price # None)
                 => /\ range # UNKNOWN
                    /\ RangeLower(range) <= price
                    /\ price <= RangeUpper(range)
            /\ (IndicatorType = IN_ /\ price = 100000)
                 => range = <<"9", "0", "0", "0", "0", "-",
                              "1", "1", "0", "0", "0", "0", " ", "P", "L", "N">>
            /\ (IndicatorType = ABOVE /\ price = 100000)
                 => range = <<"8", "5", "0", "0", "0", "-",
                              "1", "0", "0", "0", "0", "0", " ", "P", "L", "N">>
            /\ (IndicatorType = BELOW /\ price = 100000)
                 => range = <<"1", "0", "0", "0", "0", "0", "-",
                              "1", "1", "5", "0", "0", "0", " ", "P", "L", "N">>

\* t is the word w (given in small letters) up to the case of its letters
SameLetters(t, w) ==
    /\ Len(t) = Len(w)
    /\ \A k \in 1..Len(w) :
         \E j \in 1..Len(LowerChars) :
            /\ w[k] = LowerChars[j]
            /\ t[k] \in {LowerChars[j], UpperChars[j]}

(* C15: the mapping has no_accident = 1 exactly when the record's          *)
(* no_accident is "tak" in any letter case (0 otherwise), and new_used =   *)
(* "new" exactly when the record's new_used is "nowy" in any letter case   *)
(* ("used" otherwise); transforming the record again gives the same        *)
(* mapping.                                                                *)
C15_TransformFlags ==
    \A k \in 1..Len(b_outs) :
        /\ b_outs[k].params.no_accident = (IF SameLetters(b_car.no_accident, TAK) THEN 1 ELSE 0)
        /\ b_outs[k].new_used = (IF SameLetters(b_car.new_used, NOWY) THEN NEW_ ELSE USED)
        /\ b_outs[k] = b_outs[1]

C15_Witness ==
    /\ Len(b_outs) = 2
    /\ b_car.no_accident = <<"t", "a", "K">>
    /\ b_car.new_used = <<"N", "O", "W", "Y">>
    /\ b_outs[2].params.no_accident = 1
    /\ b_outs[2].new_used = NEW_

(* C16: when the page has no country-of-origin value (the keyed lookup     *)
(* yields nothing), the mapping's country_origin is "pl"; otherwise it is  *)
(* the source value in small letters.                                      *)
C16_CountryDefaultsToPl ==
    \A k \in 1..Len(b_outs) :
        LET source == extract_data_testid_value(b_soup, "country_origin")
        IN  b_outs[k].params.country_origin =
              (IF Truthy(source) THEN Lower(source) ELSE PL)

\* a source text is missing or has no digit
NoDigits(t) == t = None \/ DigitsOnly(t) = <<>>

(* C19: a missing or digitless numeric source never drops the record: the  *)
(* builder returns a record, and price, year and engine_power are 0 when   *)
(* their sources are missing or hold no digit (mileage_km and              *)
(* engine_capacity, which the record keeps as text, at least hold a value).*)
C19_NumericDefaultsToZero ==
    b_pc = "done" =>
        /\ b_car # NoCar
        /\ NoDigits(b_soup.price) => b_car.price_pln = 0
        /\ (/\ NoDigits(DetailsGet(b_soup, "rok produkcji"))
            /\ NoDigits(extract_data_testid_value(b_soup, "year")))
             => b_car.year = 0
        /\ (/\ NoDigits(DetailsGet(b_soup, "moc"))
            /\ NoDigits(extract_data_testid_value(b_soup, "engine_power")))
             => b_car.engine_power = 0
        /\ b_car.mileage_km # None
        /\ b_car.engine_capacity # None

\* the attributes of the record filled from DualTestIds and DualLabels
DualAttributes == <<"door_count", "body_type", "color", "gearbox",
                    "date_registration", "transmission">>

(* C20: for every field with a keyed block and a legacy table entry the    *)
(* keyed lookup is primary: when it yields a value the record holds that   *)
(* value, and the legacy value is used only when the keyed lookup yields   *)
(* nothing.                                                                *)
C20_KeyedLookupPrimary ==
    Returned =>
        /\ \A k \in 1..Len(DualAttributes) :
             LET keyed == extract_data_testid_value(b_soup, DualTestIds[k])
                 legacy == DetailsGet(b_soup, DualLabels[k])
             IN  /\ Truthy(keyed) => b_car[DualAttributes[k]] = keyed
                 /\ (~Truthy(keyed) /\ Truthy(legacy)) => b_car[DualAttributes[k]] = legacy
        /\ LET keyed == extract_data_testid_value(b_soup, "year")
           IN  (Truthy(keyed) /\ FirstFourDigits(keyed) # <<>>)
                 => b_car.year = ToInt(FirstFourDigits(keyed))
        /\ KeyedEnginePower(b_soup) # NoneInt
             => b_car.engine_power = KeyedEnginePower(b_soup)

----------------------------------------------------------------------------
(* scrape: the batch loop over all_links (l.377-392) *)

chunk_size == 8

\* s[a:b] of Python, 0-based, for 0 <= a <= b
PySliceInclusive(seq, a, b) ==
    SubSeq(seq, a + 1, IF b + 1 < Len(seq) THEN b + 1 ELSE Len(seq))

PySlice(seq, a, b) ==
    SubSeq(seq, a + 1, IF b < Len(seq) THEN b ELSE Len(seq))

\* the links a crawl hands over: the same link can come up more than once
Urls == <<"u1", "u2", "u3">>
LinkSeq(n) == [p \in 1..n |-> Urls[((p - 1) % Len(Urls)) + 1]]

\* what the builders of a batch meet: a page that parses, a page whose price
\* tag has no digit
BadPriceSoup == [RichSoup EXCEPT !.price = <<"z", "l">>]
BatchSoups == {RichSoup, BadPriceSoup}
BatchVins == { <<"V", "1">> }

Positions == 1..Len(all_links)
InFlight == {p \in Positions : t_state[p] = "running"}
Failing == {p \in Positions : t_state[p] = "done" /\ t_result[p] = NoCar}

\* the link positions of the chunk being gathered
ChunkPositions ==
    LET c == chunks[Len(chunks)]
    IN  {p \in Positions : c.i < p /\ p <= c.i + Len(c.links)}

\* l.377: the links are known
BatchInit ==
    /\ s_pc = "chunk_loop"
    /\ \E n \in 0..MaxLinks : all_links = LinkSeq(n)
    /\ s_i = 0
    /\ chunks = <<>>
    /\ t_state = [p \in Positions |-> "pending"]
    /\ t_result = [p \in Positions |-> NoCar]
    /\ launched = [p \in Positions |-> 0]
    /\ cars = <<>>
    /\ s_sleeps = 0
    /\ max_pages = 0
    /\ c_page = 0
    /\ c_log = <<>>
    /\ c_soups = <<>>
    /\ c_req = 0
    /\ t_req = <<>>
    /\ t_fetched = <<>>
    /\ t_soup = <<>>
    /\ t_sess = <<>>
    /\ t_vin = <<>>
    \* fetch_html is not running
    /\ f_pc = "idle"
    /\ f_retries = 0
    /\ f_attempt = 0
    /\ f_log = <<>>
    /\ f_long = 0
    /\ f_std = 0
    /\ f_ret = None
    /\ f_exit = "running"
    \* extract_vin_with_playwright is not running
    /\ v_pc = "idle"
    /\ v_attempt = 0
    /\ v_open = {}
    /\ v_opened = 0
    /\ v_sleeps = 0
    /\ v_trace = <<>>
    /\ v_captured = None
    /\ v_ret = None
    /\ v_exit = "running"
    \* fetch_car_details is not running
    /\ b_pc = "idle"
    /\ b_url = "u1"
    /\ b_soup = NoCar
    /\ b_pw = None
    /\ b_car = NoCar
    /\ b_outs = <<>>

\* l.383-386: next chunk; one fetch_car_details per link, handed to gather
BatchLaunch ==
    /\ s_pc = "chunk_loop"
    /\ s_i < Len(all_links)
    /\ LET chunk == PySlice(all_links, s_i, s_i + chunk_size)
           ps == {p \in Positions : s_i < p /\ p <= s_i + Len(chunk)}
       IN  /\ chunks' = Append(chunks, [i |-> s_i, links |-> chunk])
           /\ t_state' = [p \in Positions |-> IF p \in ps THEN "running" ELSE t_state[p]]
           /\ launched' = [p \in Positions |-> IF p \in ps THEN launched[p] + 1 ELSE launched[p]]
    /\ s_pc' = "gather"
    /\ UNCHANGED <<all_links, s_i, t_result, cars, s_sleeps>>

\* l.383, 392: range exhausted; return cars
BatchReturn ==
    /\ s_pc = "chunk_loop"
    /\ ~(s_i < Len(all_links))
    /\ s_pc' = "done"
    /\ UNCHANGED <<all_links, s_i, chunks, t_state, t_result, launched, cars, s_sleeps>>

\* one fetch_car_details of the chunk ends (l.134-297); an exception that
\* left it would leave gather and scrape as well
BatchTaskFinish ==
    /\ s_pc = "gather"
    /\ \E p \in InFlight, soup \in BatchSoups, pw \in BatchVins :
         /\ PriceRaises(soup) => Cardinality(Failing) < MaxFailing
         /\ \E r \in {fetch_car_details(all_links[p], soup, pw)} :
              /\ t_state' = [t_state EXCEPT ![p] = "done"]
              /\ IF r = [raised |-> TRUE]
                   THEN /\ s_pc' = "aborted"
                        /\ UNCHANGED t_result
                   ELSE /\ t_result' = [t_result EXCEPT ![p] = r]
                        /\ UNCHANGED s_pc
    /\ UNCHANGED <<all_links, s_i, chunks, launched, cars, s_sleeps>>

\* l.386: gather returns when every task of the chunk has finished
GatherAnyComplete(ps) == \E p \in ps : t_state[p] = "done"

GatherComplete(ps) == \A p \in ps : t_state[p] = "done"

\* l.389
NeedsPacingAlways(i, n) == TRUE

NeedsPacing(i, n) == i + chunk_size < n

\* l.387: [car for car in chunk_results if car is not None], in chunk order
RECURSIVE RecordsOf(_, _)
RecordsOf(lo, hi) ==
    IF lo > hi THEN <<>>
    ELSE (IF t_state[lo] = "done" /\ t_result[lo] # NoCar THEN <<t_result[lo]>> ELSE <<>>)
         \o RecordsOf(lo + 1, hi)

\* l.386-390: the barrier, cars.extend, and the pacing sleep or the next i
BatchGatherDone ==
    /\ s_pc = "gather"
    /\ GatherComplete(ChunkPositions)
    /\ LET c == chunks[Len(chunks)]
       IN  cars' = cars \o RecordsOf(c.i + 1, c.i + Len(c.links))
    /\ IF NeedsPacing(s_i, Len(all_links))
         THEN /\ s_pc' = "pacing"
              /\ s_sleeps' = s_sleeps + 1
              /\ UNCHANGED s_i
         ELSE /\ s_pc' = "chunk_loop"
              /\ s_i' = s_i + chunk_size
              /\ UNCHANGED s_sleeps
    /\ UNCHANGED <<all_links, chunks, t_state, t_result, launched>>

\* l.390, 383: the sleep is over; next i
BatchPacingDone ==
    /\ s_pc = "pacing"
    /\ s_i' = s_i + chunk_size
    /\ s_pc' = "chunk_loop"
    /\ UNCHANGED <<all_links, chunks, t_state, t_result, launched, cars, s_sleeps>>

BatchNext ==
    /\ \/ BatchLaunch
       \/ BatchReturn
       \/ BatchTaskFinish
       \/ BatchGatherDone
       \/ BatchPacingDone
    /\ UNCHANGED <<fetchVars, vinVars, buildVars, crawlVars, runVars>>

SpecBatch == BatchInit /\ [][BatchNext]_vars

\* chunk number of a link position: positions 1..8 are chunk 0, 9..16 chunk 1
ChunkOf(p) == (p - 1) \div 8

\* the positions whose chunk has been handed to gather so far
LaunchedUpTo == IF Len(chunks) * 8 < Len(all_links) THEN Len(chunks) * 8 ELSE Len(all_links)

(* C4: a builder whose page raises gives None for its own link only: the   *)
(* exception never leaves fetch_car_details (scrape is never aborted),     *)
(* every builder of every chunk finishes, and after each barrier `cars`    *)
(* holds, in order, the record of every builder so far that returned one.  *)
C4_FailureStaysLocal ==
    /\ s_pc # "aborted"
    /\ s_pc \in {"chunk_loop", "pacing", "done"} =>
         /\ \A p \in 1..LaunchedUpTo : t_state[p] = "done"
         /\ cars = RecordsOf(1, LaunchedUpTo)
         /\ Len(cars) = LaunchedUpTo - Cardinality(Failing)
    /\ s_pc = "done" => LaunchedUpTo = Len(all_links)

C4_Witness ==
    /\ s_pc = "done"
    /\ Len(all_links) = 17
    /\ Failing = {3}
    /\ Len(cars) = 16
    /\ \A k \in 1..16 : cars[k].link = all_links[IF k < 3 THEN k ELSE k + 1]

(* C5: at most 8 builders are in flight, all of them in the same chunk,    *)
(* and no builder of a later chunk has started while a builder of an       *)
(* earlier chunk has not finished.                                         *)
C5_BarrierAndBound ==
    /\ Cardinality(InFlight) <= 8
    /\ \A p, q \in InFlight : ChunkOf(p) = ChunkOf(q)
    /\ \A p, q \in Positions :
         (ChunkOf(p) < ChunkOf(q) /\ t_state[q] # "pending") => t_state[p] = "done"

C5_Witness ==
    /\ Len(all_links) = 17
    /\ InFlight = 9..16
    /\ \A p \in 1..8 : t_state[p] = "done"
    /\ t_state[17] = "pending"

RECURSIVE ConcatLinks(_)
ConcatLinks(cs) ==
    IF cs = <<>> THEN <<>> ELSE cs[1].links \o ConcatLinks(Tail(cs))

(* C6: n links are cut into ceil(n / 8) chunks that partition the sequence *)
(* in order - all chunks but the last have 8 links, the last has 1..8; 17  *)
(* links give 8, 8, 1 and 0 links give no chunk - and every link position  *)
(* is handed to exactly one fetch_car_details call.                        *)
C6_ChunksPartition ==
    /\ \A p \in Positions : launched[p] <= 1
    /\ s_pc = "done" =>
         /\ Len(chunks) = (Len(all_links) + 7) \div 8
         /\ ConcatLinks(chunks) = all_links
         /\ \A k \in 1..Len(chunks) :
              /\ chunks[k].i = 8 * (k - 1)
              /\ k < Len(chunks) => Len(chunks[k].links) = 8
              /\ k = Len(chunks) => Len(chunks[k].links) \in 1..8
         /\ \A p \in Positions : launched[p] = 1
         /\ Len(all_links) = 17 =>
              [k \in 1..Len(chunks) |-> Len(chunks[k].links)] = <<8, 8, 1>>
         /\ Len(all_links) = 0 => chunks = <<>>

C6_Witness ==
    /\ s_pc = "done"
    /\ Len(all_links) = 17
    /\ Len(chunks) = 3
    /\ Len(chunks[3].links) = 1
    /\ \A p \in Positions : launched[p] = 1

(* C7: the pacing sleep happens once between two consecutive chunks, after *)
(* the barrier of the earlier one and before the launch of the later one,  *)
(* and never after the last chunk: c >= 1 chunks make c - 1 sleeps.        *)
C7_PacingBetweenChunks ==
    /\ s_pc = "gather" => s_sleeps = Len(chunks) - 1
    /\ s_pc = "pacing" =>
         /\ s_sleeps = Len(chunks)
         /\ InFlight = {}
         /\ \A p \in 1..LaunchedUpTo : t_state[p] = "done"
         /\ LaunchedUpTo < Len(all_links)
         /\ \A p \in (LaunchedUpTo + 1)..Len(all_links) : t_state[p] = "pending"
    /\ s_pc = "done" =>
         s_sleeps = (IF Len(chunks) >= 1 THEN Len(chunks) - 1 ELSE 0)

C7_Witness ==
    /\ s_pc = "done"
    /\ Len(all_links) = 17
    /\ Len(chunks) = 3
    /\ s_sleeps = 2

----------------------------------------------------------------------------
(* scrape: the page loop that collects all_links (l.366-375)               *)
(*                                                                         *)
(* A listing soup is the sequence of its <article> elements in document    *)
(* order; each is the href text of its first <a href=...>, or None when    *)
(* the article has no such tag.                                            *)
(***************************************************************************)

HTTP == <<"h", "t", "t", "p">>
SITE == <<"h", "t", "t", "p", "s", ":", "/", "/", "w", "w", "w", ".", "o", "t", "o", "m", "o", "t", "o", ".", "p", "l">>
OFERTA == <<"/", "o", "f", "e", "r", "t", "a", "/">>

\* link.startswith(pre)
StartsWith(t, pre) == Len(t) >= Len(pre) /\ SubSeq(t, 1, Len(pre)) = pre

\* l.122-132
RECURSIVE extract_links_from_page(_)
extract_links_from_page(articles) ==
    IF articles = <<>> THEN <<>>
    ELSE LET a_tag == articles[1]
             href == Strip(a_tag)
             link == IF StartsWith(href, HTTP) THEN href ELSE SITE \o href
         IN  (IF a_tag # None /\ Contains(link, OFERTA) THEN <<link>> ELSE <<>>)
             \o extract_links_from_page(Tail(articles))

\* l.375: all_links.extend(page_links)
RECURSIVE ExtendUnique(_, _)
ExtendUnique(links, page_links) ==
    IF page_links = <<>> THEN links
    ELSE ExtendUnique(IF \E k \in 1..Len(links) : links[k] = page_links[1]
                        THEN links ELSE Append(links, page_links[1]),
                      Tail(page_links))

Extend(links, page_links) == links \o page_links

\* BeautifulSoup("") : fetch_html gave up and returned ""
EmptyListing == <<>>

\* the listing pages of the model: relative and absolute links to the same
\* offer, blanks around an href, an article without link, a link that is no
\* offer, the same offer twice on one page
ListingSoups ==
    { EmptyListing,
      << <<"/", "o", "f", "e", "r", "t", "a", "/", "a">> >>,
      << <<"h", "t", "t", "p", "s", ":", "/", "/", "w", "w", "w", ".", "o", "t", "o", "m", "o", "t", "o", ".", "p", "l", "/", "o", "f", "e", "r", "t", "a", "/", "a">>,
         <<" ", "/", "o", "f", "e", "r", "t", "a", "/", "b", " ">> >>,
      << None, <<"/", "o", "s", "o", "b", "o", "w", "e", "/", "x">>, <<"/", "o", "f", "e", "r", "t", "a", "/", "b">>,
         <<"/", "o", "f", "e", "r", "t", "a", "/", "b">> >> }

\* l.364-367: scrape() starts; all_links = []
CrawlInit ==
    /\ s_pc = "page_loop"
    /\ max_pages \in 0..MaxPages
    /\ c_page = 1
    /\ c_log = <<>>
    /\ c_soups = <<>>
    /\ c_req = 0
    /\ t_req = <<>>
    /\ t_fetched = <<>>
    /\ t_soup = <<>>
    /\ t_sess = <<>>
    /\ t_vin = <<>>
    /\ all_links = <<>>
    /\ s_i = 0
    /\ chunks = <<>>
    /\ t_state = <<>>
    /\ t_result = <<>>
    /\ launched = <<>>
    /\ cars = <<>>
    /\ s_sleeps = 0
    \* fetch_html is not running
    /\ f_pc = "idle"
    /\ f_retries = 0
    /\ f_attempt = 0
    /\ f_log = <<>>
    /\ f_long = 0
    /\ f_std = 0
    /\ f_ret = None
    /\ f_exit = "running"
    \* extract_vin_with_playwright is not running
    /\ v_pc = "idle"
    /\ v_attempt = 0
    /\ v_open = {}
    /\ v_opened = 0
    /\ v_sleeps = 0
    /\ v_trace = <<>>
    /\ v_captured = None
    /\ v_ret = None
    /\ v_exit = "running"
    \* fetch_car_details is not running
    /\ b_pc = "idle"
    /\ b_url = "u1"
    /\ b_soup = NoCar
    /\ b_pw = None
    /\ b_car = NoCar
    /\ b_outs = <<>>

\* l.368-370: next page of range(1, max_pages + 1); asyncio.sleep(0.5)
CrawlSleep ==
    /\ s_pc = "page_loop"
    /\ c_page <= max_pages
    /\ c_log' = Append(c_log, [op |-> "sleep", page |-> c_page])
    /\ s_pc' = "page_sleep"
    /\ UNCHANGED <<max_pages, c_page, c_soups, all_links>>
    /\ UNCHANGED <<s_i, chunks, t_state, t_result, launched, cars, s_sleeps>>

\* l.371-372: the sleep is over; fetch_html(session, url) is called
CrawlRequest ==
    /\ s_pc = "page_sleep"
    /\ c_log' = Append(c_log, [op |-> "fetch", page |-> c_page])
    /\ s_pc' = "page_fetch"
    /\ UNCHANGED <<max_pages, c_page, c_soups, all_links>>
    /\ UNCHANGED <<s_i, chunks, t_state, t_result, launched, cars, s_sleeps>>

\* l.372-375: fetch_html returned (a page, or "" after its retries); the
\* links of the page are added and the loop goes on
CrawlResponse ==
    /\ s_pc = "page_fetch"
    /\ \E soup \in ListingSoups :
         /\ c_soups' = Append(c_soups, soup)
         /\ all_links' = Extend(all_links, extract_links_from_page(soup))
    /\ c_page' = c_page + 1
    /\ s_pc' = "page_loop"
    /\ UNCHANGED <<max_pages, c_log>>
    /\ UNCHANGED <<s_i, chunks, t_state, t_result, launched, cars, s_sleeps>>

\* l.368, 377-383: the range is used up; the batch loop starts on all_links
CrawlHandOver ==
    /\ s_pc = "page_loop"
    /\ ~(c_page <= max_pages)
    /\ s_pc' = "chunk_loop"
    /\ s_i' = 0
    /\ chunks' = <<>>
    /\ t_state' = [p \in 1..Len(all_links) |-> "pending"]
    /\ t_result' = [p \in 1..Len(all_links) |-> NoCar]
    /\ launched' = [p \in 1..Len(all_links) |-> 0]
    /\ cars' = <<>>
    /\ UNCHANGED <<max_pages, c_page, c_log, c_soups, all_links, s_sleeps>>

CrawlNext ==
    /\ \/ CrawlSleep
       \/ CrawlRequest
       \/ CrawlResponse
       \/ CrawlHandOver
    /\ UNCHANGED <<fetchVars, vinVars, buildVars, runVars>>

SpecCrawl == CrawlInit /\ [][CrawlNext]_vars

\* the links of the pages fetched so far, page after page
RECURSIVE LinksOfPages(_)
LinksOfPages(k) ==
    IF k = 0 THEN <<>>
    ELSE LinksOfPages(k - 1) \o extract_links_from_page(c_soups[k])

\* number of occurrences of a link in a sequence
Occurrences(seq, link) == Cardinality({k \in 1..Len(seq) : seq[k] = link})

RECURSIVE OccurrencesOnPages(_, _)
OccurrencesOnPages(k, link) ==
    IF k = 0 THEN 0
    ELSE OccurrencesOnPages(k - 1, link)
         + Occurrences(extract_links_from_page(c_soups[k]), link)

(* C11: the pages 1..max_pages are requested one after another, each       *)
(* request right after exactly one pacing sleep; all_links is the          *)
(* concatenation, in page order, of the links of each page in document     *)
(* order, with no deduplication: a link that occurs k times on the pages   *)
(* occurs k times in all_links and gets k positions of the batch loop; a   *)
(* page whose fetch returned "" adds nothing and the loop goes on.         *)
C11_SequentialPagesNoDedup ==
    /\ \A k \in 1..Len(c_log) :
         /\ c_log[k].op = (IF k % 2 = 1 THEN "sleep" ELSE "fetch")
         /\ c_log[k].page = (k + 1) \div 2
    /\ Len(c_log) <= 2 * max_pages
    /\ Len(c_soups) = (IF s_pc \in {"page_sleep", "page_fetch"} THEN c_page - 1
                       ELSE Len(c_log) \div 2)
    /\ s_pc = "page_fetch" => Len(c_log) = 2 * c_page
    /\ all_links = LinksOfPages(Len(c_soups))
    /\ \A k \in 1..Len(all_links) :
         Occurrences(all_links, all_links[k]) = OccurrencesOnPages(Len(c_soups), all_links[k])
    /\ s_pc = "chunk_loop" =>
         /\ Len(c_soups) = max_pages
         /\ Len(c_log) = 2 * max_pages
         /\ DOMAIN t_state = 1..Len(all_links)
         /\ \A p \in 1..Len(all_links) : t_state[p] = "pending" /\ launched[p] = 0

C11_Witness ==
    /\ s_pc = "chunk_loop"
    /\ max_pages = 3
    /\ c_soups[1] # EmptyListing
    /\ c_soups[2] = EmptyListing
    /\ c_soups[3] # EmptyListing
    /\ \E k \in 1..Len(all_links) :
         /\ Occurrences(all_links, all_links[k]) >= 2
         /\ Occurrences(extract_links_from_page(c_soups[1]), all_links[k]) >= 1
         /\ Occurrences(extract_links_from_page(c_soups[3]), all_links[k]) >= 1
    /\ Len(t_state) = Len(all_links)

-----------------------------------------------------------------------------
(* scrape() as a whole (l.364-392): the page loop, the hand-over and the   *)
(* batch loop of the sections above, with every task of a chunk followed   *)
(* through its fetch_html call (l.98-120) and its                          *)
(* extract_vin_with_playwright call (l.299-362). A step is what the event  *)
(* loop runs between two awaits. The runs followed have at most            *)
(* MaxRunLinks links, hence one chunk: the pacing sleep between chunks     *)
(* (l.389-390) belongs to the runs of SpecBatch.                           *)

MaxRunPages == 2
MaxRunLinks == 2

\* l.98: fetch_html(self, session, url, retries=2, delay=1); both callers
\* (l.136, l.372) leave the defaults
retries == 2

\* l.100, 120: range(retries) is used up after n requests; return ""
FetchExhaustedLate(n) == ~(n < retries + 1)

FetchExhausted(n) == ~(n < retries)

\* l.137: BeautifulSoup(html, "html.parser"); "" is a document without tags
ParseDetail(html, doc) == IF html = EmptyHtml THEN EmptySoup ELSE doc

\* l.137-214: the statements between the fetch and the extractor call raise
\* on a digitless price tag only (l.148); the html itself is never tested
ReachesExtractorOnBody(html, soup) == html # EmptyHtml /\ ~PriceRaises(soup)

ReachesExtractor(html, soup) == ~PriceRaises(soup)

\* what the extractor can return from a session: a VIN, or None
RunVins == {None} \cup BatchVins

\* l.364-367
ScrapeInit ==
    /\ s_pc = "page_loop"
    /\ max_pages \in 0..MaxRunPages
    /\ c_page = 1
    /\ c_log = <<>>
    /\ c_soups = <<>>
    /\ c_req = 0
    /\ t_req = <<>>
    /\ t_fetched = <<>>
    /\ t_soup = <<>>
    /\ t_sess = <<>>
    /\ t_vin = <<>>
    /\ all_links = <<>>
    /\ s_i = 0
    /\ chunks = <<>>
    /\ t_state = <<>>
    /\ t_result = <<>>
    /\ launched = <<>>
    /\ cars = <<>>
    /\ s_sleeps = 0
    \* the single-call processes are not running
    /\ f_pc = "idle"
    /\ f_retries = 0
    /\ f_attempt = 0
    /\ f_log = <<>>
    /\ f_long = 0
    /\ f_std = 0
    /\ f_ret = None
    /\ f_exit = "running"
    /\ v_pc = "idle"
    /\ v_attempt = 0
    /\ v_open = {}
    /\ v_opened = 0
    /\ v_sleeps = 0
    /\ v_trace = <<>>
    /\ v_captured = None
    /\ v_ret = None
    /\ v_exit = "running"
    /\ b_pc = "idle"
    /\ b_url = "u1"
    /\ b_soup = NoCar
    /\ b_pw = None
    /\ b_car = NoCar
    /\ b_outs = <<>>

\* l.370: the pacing sleep of a page
ScrapePageSleep ==
    /\ CrawlSleep
    /\ UNCHANGED runVars

\* l.372: fetch_html(session, url) is called for the page
ScrapePageCall ==
    /\ CrawlRequest
    /\ UNCHANGED runVars

\* l.100-119 for the page: a request that ends in 403, another status or an
\* exception, and the sleep that follows it
ScrapePageRequestFails ==
    /\ s_pc = "page_fetch"
    /\ ~FetchExhausted(c_req)
    /\ c_req' = c_req + 1
    /\ UNCHANGED <<batchVars, crawlVars, t_req, t_fetched, t_soup, t_sess, t_vin>>

\* l.102-104, 372-375: a request of the page answers 200
ScrapePageFetched ==
    /\ ~FetchExhausted(c_req)
    /\ CrawlResponse
    /\ Len(all_links') <= MaxRunLinks
    /\ c_req' = 0
    /\ UNCHANGED <<t_req, t_fetched, t_soup, t_sess, t_vin>>

\* l.120, 372-375: the page's fetch_html gives up; "" has no links
ScrapePageExhausted ==
    /\ FetchExhausted(c_req)
    /\ CrawlResponse
    /\ c_soups'[Len(c_soups')] = EmptyListing
    /\ c_req' = 0
    /\ UNCHANGED <<t_req, t_fetched, t_soup, t_sess, t_vin>>

\* l.368, 377-383: the batch loop starts; no task exists yet
ScrapeHandOver ==
    /\ CrawlHandOver
    /\ t_req' = [p \in 1..Len(all_links) |-> 0]
    /\ t_fetched' = [p \in 1..Len(all_links) |-> "no"]
    /\ t_soup' = [p \in 1..Len(all_links) |-> NoCar]
    /\ t_sess' = [p \in 1..Len(all_links) |-> 0]
    /\ t_vin' = [p \in 1..Len(all_links) |-> FALSE]
    /\ UNCHANGED c_req

\* l.383-386
ScrapeLaunch ==
    /\ BatchLaunch
    /\ UNCHANGED <<crawlVars, runVars>>

\* l.100-119 in a task: a request that fails, and its sleep
ScrapeTaskRequestFails ==
    /\ s_pc = "gather"
    /\ \E p \in InFlight :
         /\ t_fetched[p] = "no"
         /\ ~FetchExhausted(t_req[p])
         /\ t_req' = [t_req EXCEPT ![p] = t_req[p] + 1]
    /\ UNCHANGED <<batchVars, crawlVars, c_req, t_fetched, t_soup, t_sess, t_vin>>

\* l.136-214, 295-297: fetch_html has returned `html`; the static extraction
\* runs up to the extractor call, where the first browser is launched, or
\* raises and the task ends with None
TaskFetched(p, html, doc) ==
    \E soup \in {ParseDetail(html, doc)} :
      /\ t_fetched' = [t_fetched EXCEPT ![p] = IF html = EmptyHtml THEN "exhausted" ELSE "body"]
      /\ t_soup' = [t_soup EXCEPT ![p] = soup]
      /\ t_req' = [t_req EXCEPT ![p] = 0]
      /\ IF ReachesExtractor(html, soup)
           THEN /\ t_vin' = [t_vin EXCEPT ![p] = TRUE]
                /\ t_sess' = [t_sess EXCEPT ![p] = 1]
                /\ UNCHANGED <<t_state, t_result>>
           ELSE /\ t_state' = [t_state EXCEPT ![p] = "done"]
                /\ t_result' = [t_result EXCEPT ![p] = NoCar]
                /\ UNCHANGED <<t_vin, t_sess>>

\* l.102-104: a request of the task answers 200
ScrapeTaskFetch200 ==
    /\ s_pc = "gather"
    /\ \E p \in InFlight, doc \in BatchSoups :
         /\ t_fetched[p] = "no"
         /\ ~FetchExhausted(t_req[p])
         /\ TaskFetched(p, PageHtml, doc)
    /\ UNCHANGED <<s_pc, all_links, s_i, chunks, launched, cars, s_sleeps, crawlVars, c_req>>

\* l.120: the task's fetch_html gives up and returns ""
ScrapeTaskFetchExhausted ==
    /\ s_pc = "gather"
    /\ \E p \in InFlight :
         /\ t_fetched[p] = "no"
         /\ FetchExhausted(t_req[p])
         /\ TaskFetched(p, EmptyHtml, EmptySoup)
    /\ UNCHANGED <<s_pc, all_links, s_i, chunks, launched, cars, s_sleeps, crawlVars, c_req>>

\* l.353-357: a browser session ends in an exception with
\* attempt < max_retries; sleep(5) and the next session
ScrapeTaskSessionFails ==
    /\ s_pc = "gather"
    /\ \E p \in InFlight :
         /\ t_vin[p]
         /\ t_sess[p] - 1 < max_retries
         /\ t_sess' = [t_sess EXCEPT ![p] = t_sess[p] + 1]
    /\ UNCHANGED <<batchVars, crawlVars, c_req, t_req, t_fetched, t_soup, t_vin>>

\* the links the listing pages of the model hold
RunLinks ==
    UNION {{extract_links_from_page(page)[k] : k \in 1..Len(extract_links_from_page(page))} :
           page \in ListingSoups}

\* fetch_car_details from l.214 on, for every link, document and extractor
\* result of a run
RunRecords ==
    [link \in RunLinks |->
       [soup \in {ParseDetail(PageHtml, doc) : doc \in BatchSoups} \cup {ParseDetail(EmptyHtml, EmptySoup)} |->
          [pw \in RunVins |-> fetch_car_details(link, soup, pw)]]]

\* l.214-297: the extractor has returned pw; the record is assembled and the
\* task ends
TaskReturns(p, pw) ==
    /\ t_state' = [t_state EXCEPT ![p] = "done"]
    /\ t_result' = [t_result EXCEPT ![p] = RunRecords[all_links[p]][t_soup[p]][pw]]
    /\ t_sess' = [t_sess EXCEPT ![p] = 0]

\* l.326-352: a session returns the VIN, or None (no button, wait timeout)
ScrapeTaskSessionReturns ==
    /\ s_pc = "gather"
    /\ \E p \in InFlight, pw \in RunVins :
         /\ t_vin[p]
         /\ TaskReturns(p, pw)
    /\ UNCHANGED <<s_pc, all_links, s_i, chunks, launched, cars, s_sleeps, crawlVars,
                   c_req, t_req, t_fetched, t_soup, t_vin>>

\* l.358-360: the last session ends in an exception; return None
ScrapeTaskSessionGivesUp ==
    /\ s_pc = "gather"
    /\ \E p \in InFlight :
         /\ t_vin[p]
         /\ ~(t_sess[p] - 1 < max_retries)
         /\ TaskReturns(p, None)
    /\ UNCHANGED <<s_pc, all_links, s_i, chunks, launched, cars, s_sleeps, crawlVars,
                   c_req, t_req, t_fetched, t_soup, t_vin>>

\* l.386-389: the barrier of the chunk; cars.extend
ScrapeGatherDone ==
    /\ BatchGatherDone
    /\ ~NeedsPacing(s_i, Len(all_links))
    /\ UNCHANGED <<crawlVars, runVars>>

\* l.383, 392
ScrapeReturn ==
    /\ BatchReturn
    /\ UNCHANGED <<crawlVars, runVars>>

ScrapeNext ==
    /\ \/ ScrapePageSleep
       \/ ScrapePageCall
       \/ ScrapePageRequestFails
       \/ ScrapePageFetched
       \/ ScrapePageExhausted
       \/ ScrapeHandOver
       \/ ScrapeLaunch
       \/ ScrapeTaskRequestFails
       \/ ScrapeTaskFetch200
       \/ ScrapeTaskFetchExhausted
       \/ ScrapeTaskSessionFails
       \/ ScrapeTaskSessionReturns
       \/ ScrapeTaskSessionGivesUp
       \/ ScrapeGatherDone
       \/ ScrapeReturn
    /\ UNCHANGED <<fetchVars, vinVars, buildVars>>

SpecScrape == ScrapeInit /\ [][ScrapeNext]_vars

\* the positions whose fetch_html used up its retries and returned ""
Exhausted == {p \in DOMAIN t_fetched : t_fetched[p] = "exhausted"}

\* the place in cars of the record of position p: the tasks before p that
\* ended with None leave no record
CarIndex(p) == p - Cardinality({q \in Failing : q < p})

(* C21: a detail page whose fetch used up its retries is not dropped: the  *)
(* "" that fetch_html returned is parsed as a document without tags, the   *)
(* extractor is still called for the link, the task ends with a record     *)
(* (full_name "unknown", year 0, price_pln 0, make and model None) and     *)
(* the record is in the list scrape() returns; the returned list has one   *)
(* record per link, less the tasks that ended in an exception (None).      *)
C21_ExhaustedFetchStillYieldsRecord ==
    /\ \A p \in Exhausted :
         /\ t_soup[p] = EmptySoup
         /\ t_vin[p]
         /\ t_state[p] = "done" =>
              /\ t_result[p] # NoCar
              /\ t_result[p].link = all_links[p]
              /\ t_result[p].full_name = UNKNOWN
              /\ t_result[p].year = 0
              /\ t_result[p].price_pln = 0
              /\ t_result[p].make = None
              /\ t_result[p].model = None
    /\ s_pc = "done" =>
         /\ Len(cars) = Len(all_links) - Cardinality(Failing)
         /\ \A p \in Exhausted : cars[CarIndex(p)] = t_result[p]

\* a finished run of two links: one task ended in an exception, the fetch
\* of the other gave up, and its record is the one returned
C21_Witness ==
    /\ s_pc = "done"
    /\ Len(all_links) = 2
    /\ Failing = {1}
    /\ Exhausted = {2}
    /\ cars = <<t_result[2]>>
    /\ t_result[2].full_name = UNKNOWN

\* every request, sleep and browser step that is pending comes to an end:
\* while a step of the run is possible, a step is taken
SpecScrapeFair == SpecScrape /\ WF_vars(ScrapeNext)

\* the requests and browser sessions of the calls in progress are within
\* their budgets
WithinBudgets ==
    /\ c_req <= retries
    /\ \A p \in DOMAIN t_req : t_req[p] <= retries
    /\ \A p \in DOMAIN t_sess : t_sess[p] <= max_retries + 1

\* a request is made, by the page loop or by a task, only when the call
\* has made fewer than `retries` requests before
RequestsWithinRetries ==
    /\ (s_pc = "page_fetch" /\ (c_req' = c_req + 1 \/ s_pc' = "page_loop")) =>
         (c_req < retries \/ c_soups'[Len(c_soups')] = EmptyListing)
    /\ \A p \in DOMAIN t_req :
         (t_req'[p] = t_req[p] + 1 \/ (t_fetched[p] = "no" /\ t_fetched'[p] = "body")) =>
            t_req[p] < retries

\* every position has been handed to exactly one task, and the task is over
EveryLinkProcessedOnce ==
    /\ DOMAIN t_state = 1..Len(all_links)
    /\ \A p \in 1..Len(all_links) : t_state[p] = "done" /\ launched[p] = 1

====
